---- MODULE Spec2Model ----
(***************************************************************************)
(* Stateful change-proposal emission and checkpoint-diff engine of the     *)
(* metadata-ingestion package: MetadataChangeProposalWrapper (emitter/     *)
(* mcp.py), MetadataWorkUnit (ingestion/api/workunit.py), the Pulsar       *)
(* source's stale-entity differ (ingestion/source/pulsar.py), the record   *)
(* extractor (ingestion/extractor/mce_extractor.py), DataProcessInstance   *)
(* emission (api/entities/dataprocess/dataprocess_instance.py), the        *)
(* naming-convention transform (emitter/serialization_helper.py), the      *)
(* graph client (ingestion/graph/client.py) and the ingestion reporting    *)
(* provider as its unit test drives it.                                    *)
(*                                                                         *)
(* Python values are records tagged by a field t.  An instance of a        *)
(* generated DictWrapper class carries len, the number of entries of its   *)
(* inner dict (what Python's truth test consults), and valid, the answer   *)
(* of its own validate().                                                  *)
(***************************************************************************)
EXTENDS Integers, Sequences, FiniteSets, TLC

VARIABLES
    \* MetadataChangeProposalWrapper under test
    mcp,            \* the constructed wrapper, or None
    ret,            \* result of the latest validate() call (FALSE before any)
    first_ret,      \* result of the first validate() call on mcp
    calls,          \* number of validate() calls made on mcp
    \* MetadataWorkUnit under test
    wu,             \* the constructed work unit, or None
    wu_args,        \* the arguments of the latest MetadataWorkUnit(...) call
    mcp_args,       \* the arguments of the latest MetadataChangeProposalWrapper(...) call
    raised,         \* exception that left the latest constructor call, "none" if none
    \* PulsarSource
    stateful_ingestion,  \* config.stateful_ingestion
    platform_instance,   \* config.platform_instance
    last_checkpoint,     \* get_last_checkpoint(default job id, KafkaCheckpointState)
    cur_checkpoint,      \* get_current_checkpoint(default job id)
    pc,                  \* position of the get_workunits generator
    tenants_scanned,     \* report.tenants_scanned
    namespaces_scanned,  \* report.namespaces_scanned
    topics,              \* topics of the current namespace not yet visited
    topic,               \* the topic whose record is being extracted
    extracting,          \* the _extract_record generator of that topic: what it yields, how far it has got
    listed,              \* topics the admin API has already listed in this run
    emitted,             \* work units yielded by get_workunits so far
    differ,              \* the latest gen_removed_entity_workunits invocation
    \* WorkUnitRecordExtractor
    units,               \* the work units a source has produced, by position
    run_id,              \* ctx.run_id
    now,                 \* what get_sys_time() returns next
    envelopes,           \* the RecordEnvelopes get_records has yielded, in order
    extractions,         \* one entry per get_records call, in call order
    \* DataProcessInstance
    dpi,                 \* the DataProcessInstance a caller holds, or None
    emission,            \* the emit / emit_process_start / emit_process_end call made on it
    \* serialization_helper
    json_in,             \* the object form handed to pre_json_transform
    json_wire,           \* what pre_json_transform returned or raised
    json_back,           \* what post_json_transform made of json_wire
    json_pc,             \* "in", "wire" or "back": how far the round trip has got
    \* PulsarSource.is_checkpointing_enabled
    checks,              \* the is_checkpointing_enabled calls made, with their results
    \* the ingestion reporting provider and the graph it commits to
    mcps_emitted,        \* the proposals the graph holds, by entity urn
    committed,           \* provider.committed
    commit_log,          \* one entry per commit() call, in call order
    last_state,          \* the latest get_last_state call and its result
    \* DataHubGraph
    request,             \* the get_latest_timeseries_value call and the server's answer to it
    latest_value         \* what that call returned or raised, None before the call

vars == <<mcp, ret, first_ret, calls, wu, wu_args, mcp_args, raised,
          stateful_ingestion, platform_instance, last_checkpoint, cur_checkpoint,
          pc, tenants_scanned, namespaces_scanned, topics, topic, extracting, listed,
          emitted, differ, units, run_id, now, envelopes, extractions,
          dpi, emission, json_in, json_wire, json_back, json_pc,
          checks, mcps_emitted, committed, commit_log, last_state,
          request, latest_value>>

mcpVars == <<mcp, mcp_args, ret, first_ret, calls>>
wuVars == <<wu, wu_args>>
pulsarVars == <<stateful_ingestion, platform_instance, last_checkpoint,
                cur_checkpoint, pc, tenants_scanned, namespaces_scanned,
                topics, topic, extracting, listed, emitted, differ>>
extractorVars == <<units, run_id, now, envelopes, extractions>>
emitVars == <<dpi, emission>>
jsonVars == <<json_in, json_wire, json_back, json_pc>>
providerVars == <<mcps_emitted, committed, commit_log, last_state>>

\* checkpointing, the reporting provider and the graph client together
storeVars == <<checks, providerVars, request, latest_value>>

\* the extractor, the DataProcessInstance, the transform and the store together
restVars == <<extractorVars, emitVars, jsonVars, storeVars>>

-----------------------------------------------------------------------------
(* Bounds of the model *)

\* validate() calls made on one wrapper
MaxCalls == 2
\* tenants visited by one run
MaxTenants == 2
\* namespaces visited by one run
MaxNamespaces == 2
\* work units handed to the extractor
MaxUnits == 2
\* get_records calls made on them
MaxExtractions == 3
\* nodes (dicts, lists and leaves) of an object form given to the transform
MaxJsonSize == 3
\* is_checkpointing_enabled calls made on one source
MaxChecks == 3
\* commit() calls made on one provider
MaxCommits == 3

-----------------------------------------------------------------------------
(* Python values *)

None == [t |-> "None"]

\* Python's truth test: None is false; an object defining __len__ (a
\* DictWrapper) is false when its length is 0; any other object is true.
Truthy(x) ==
    /\ x # None
    /\ ("len" \in DOMAIN x => x.len # 0)

\* bool as the int that sum() adds up
Bit(b) == IF b THEN 1 ELSE 0

\* a str
Str(s) == [t |-> "str", s |-> s]

SeqToSet(s) == {s[i] : i \in 1..Len(s)}

\* a generated aspect class instance (opaque apart from validate())
Aspect(cls, valid) == [t |-> "DictWrapper", cls |-> cls, len |-> 1, valid |-> valid]

\* StatusClass(removed=...)
StatusClass(removed) ==
    [t |-> "DictWrapper", cls |-> "StatusClass", len |-> 1, valid |-> TRUE,
     removed |-> removed]

SystemMetadata(lastObserved, runId) ==
    [t |-> "DictWrapper", cls |-> "SystemMetadata", len |-> 2, valid |-> TRUE,
     lastObserved |-> lastObserved, runId |-> runId]

-----------------------------------------------------------------------------
(* emitter/mcp.py *)

\* _make_generic_aspect: the aspect's object form, through pre_json_transform
\* and json.dumps, wrapped as a GenericAspectClass
_make_generic_aspect(codegen_obj) ==
    [t |-> "DictWrapper", cls |-> "GenericAspectClass", len |-> 2, valid |-> TRUE,
     value |-> <<"json", [c \in DOMAIN codegen_obj \ {"t", "len", "valid"} |-> codegen_obj[c]]>>,
     contentType |-> "application/json"]

\* __init__ with the identity test of validate() moved into construction
MetadataChangeProposalWrapperChecked(entityType, changeType, entityUrn, entityKeyAspect, auditHeader, aspectName, aspect, systemMetadata) ==
    IF (entityUrn = None) = (entityKeyAspect = None)
    THEN [raised |-> "ValueError", obj |-> None]
    ELSE [raised |-> "none",
          obj |-> [t |-> "MetadataChangeProposalWrapper",
                   entityType |-> entityType, changeType |-> changeType,
                   entityUrn |-> entityUrn, entityKeyAspect |-> entityKeyAspect,
                   auditHeader |-> auditHeader, aspectName |-> aspectName,
                   aspect |-> aspect, systemMetadata |-> systemMetadata]]

\* The dataclass-generated __init__: stores its arguments, no __post_init__.
MetadataChangeProposalWrapper(entityType, changeType, entityUrn, entityKeyAspect, auditHeader, aspectName, aspect, systemMetadata) ==
    [raised |-> "none",
     obj |-> [t |-> "MetadataChangeProposalWrapper",
              entityType |-> entityType, changeType |-> changeType,
              entityUrn |-> entityUrn, entityKeyAspect |-> entityKeyAspect,
              auditHeader |-> auditHeader, aspectName |-> aspectName,
              aspect |-> aspect, systemMetadata |-> systemMetadata]]

\* make_mcp storing the serialized aspect back into the wrapper
make_mcpClobbering(self) ==
    LET serializedEntityKeyAspect ==
            IF self.entityKeyAspect # None /\ self.entityKeyAspect.t = "DictWrapper"
            THEN _make_generic_aspect(self.entityKeyAspect) ELSE None
        serializedAspect ==
            IF self.aspect # None THEN _make_generic_aspect(self.aspect) ELSE None
    IN  [ret |-> [t |-> "DictWrapper", cls |-> "MetadataChangeProposalClass",
                  len |-> 8,
                  entityType |-> self.entityType,
                  entityUrn |-> self.entityUrn,
                  entityKeyAspect |-> serializedEntityKeyAspect,
                  changeType |-> self.changeType,
                  auditHeader |-> self.auditHeader,
                  aspectName |-> self.aspectName,
                  aspect |-> serializedAspect,
                  systemMetadata |-> self.systemMetadata],
         self |-> [self EXCEPT !.aspect = serializedAspect]]

\* make_mcp returns the generic-encoded proposal; self is the wrapper as the
\* call leaves it.
make_mcp(self) ==
    LET serializedEntityKeyAspect ==
            IF self.entityKeyAspect # None /\ self.entityKeyAspect.t = "DictWrapper"
            THEN _make_generic_aspect(self.entityKeyAspect) ELSE None
        serializedAspect ==
            IF self.aspect # None THEN _make_generic_aspect(self.aspect) ELSE None
    IN  [ret |-> [t |-> "DictWrapper", cls |-> "MetadataChangeProposalClass",
                  len |-> 8,
                  entityType |-> self.entityType,
                  entityUrn |-> self.entityUrn,
                  entityKeyAspect |-> serializedEntityKeyAspect,
                  changeType |-> self.changeType,
                  auditHeader |-> self.auditHeader,
                  aspectName |-> self.aspectName,
                  aspect |-> serializedAspect,
                  systemMetadata |-> self.systemMetadata],
         self |-> self]

\* MetadataChangeProposalClass.validate(): the structural self-check of the
\* generic-encoded form against the proposal's schema.
MetadataChangeProposalClass_validate(m) ==
    /\ m.changeType \in {"UPSERT", "CREATE", "UPDATE", "DELETE", "PATCH", "RESTATE"}
    /\ m.entityKeyAspect # None => m.entityKeyAspect.contentType = "application/json"
    /\ m.aspect # None => m.aspect.contentType = "application/json"

\* validate() with the neither-set test and the both-set test dropped
validateNoIdentity(self) ==
    IF self.entityKeyAspect # None /\ ~self.entityKeyAspect.valid
    THEN [ret |-> FALSE, self |-> self]
    ELSE IF Truthy(self.aspect) /\ ~self.aspect.valid
    THEN [ret |-> FALSE, self |-> self]
    ELSE LET m == make_mcp(self)
         IN  [ret |-> MetadataChangeProposalClass_validate(m.ret), self |-> m.self]

\* validate() with the aspect payload's own validate() not consulted
validateNoAspect(self) ==
    IF self.entityUrn = None /\ self.entityKeyAspect = None
    THEN [ret |-> FALSE, self |-> self]
    ELSE IF self.entityUrn # None /\ self.entityKeyAspect # None
    THEN [ret |-> FALSE, self |-> self]
    ELSE IF self.entityKeyAspect # None /\ ~self.entityKeyAspect.valid
    THEN [ret |-> FALSE, self |-> self]
    ELSE LET m == make_mcp(self)
         IN  [ret |-> MetadataChangeProposalClass_validate(m.ret), self |-> m.self]

validate(self) ==
    IF self.entityUrn = None /\ self.entityKeyAspect = None
    THEN [ret |-> FALSE, self |-> self]
    ELSE IF self.entityUrn # None /\ self.entityKeyAspect # None
    THEN [ret |-> FALSE, self |-> self]
    ELSE IF self.entityKeyAspect # None /\ ~self.entityKeyAspect.valid
    THEN [ret |-> FALSE, self |-> self]
    ELSE IF Truthy(self.aspect) /\ ~self.aspect.valid
    THEN [ret |-> FALSE, self |-> self]
    ELSE LET m == make_mcp(self)
         IN  IF ~MetadataChangeProposalClass_validate(m.ret)
             THEN [ret |-> FALSE, self |-> m.self]
             ELSE [ret |-> TRUE, self |-> m.self]

-----------------------------------------------------------------------------
(* ingestion/api/workunit.py *)

\* __init__ with the payload count tested for "at least one"
MetadataWorkUnitAtLeastOne(id, mce, mcp_, mcp_raw, treat_errors_as_warnings) ==
    IF Bit(Truthy(mce)) + Bit(Truthy(mcp_)) + Bit(Truthy(mcp_raw)) < 1
    THEN [raised |-> "ValueError", obj |-> None]
    ELSE IF Truthy(mcp_raw)
    THEN [raised |-> "none",
          obj |-> [t |-> "MetadataWorkUnit", id |-> id, metadata |-> mcp_raw,
                   treat_errors_as_warnings |-> treat_errors_as_warnings]]
    ELSE IF Truthy(mce)
    THEN [raised |-> "none",
          obj |-> [t |-> "MetadataWorkUnit", id |-> id, metadata |-> mce,
                   treat_errors_as_warnings |-> treat_errors_as_warnings]]
    ELSE [raised |-> "none",
          obj |-> [t |-> "MetadataWorkUnit", id |-> id, metadata |-> mcp_,
                   treat_errors_as_warnings |-> treat_errors_as_warnings]]

\* MetadataWorkUnit.__init__; a work unit whose metadata was never assigned
\* has metadata = [t |-> "unset"].
MetadataWorkUnit(id, mce, mcp_, mcp_raw, treat_errors_as_warnings) ==
    IF Bit(Truthy(mce)) + Bit(Truthy(mcp_)) + Bit(Truthy(mcp_raw)) # 1
    THEN [raised |-> "ValueError", obj |-> None]
    ELSE IF Truthy(mcp_raw)
    THEN IF Truthy(mce) \/ Truthy(mcp_)
         THEN [raised |-> "AssertionError", obj |-> None]
         ELSE [raised |-> "none",
               obj |-> [t |-> "MetadataWorkUnit", id |-> id, metadata |-> mcp_raw,
                        treat_errors_as_warnings |-> treat_errors_as_warnings]]
    ELSE IF Truthy(mce) /\ ~Truthy(mcp_)
    THEN [raised |-> "none",
          obj |-> [t |-> "MetadataWorkUnit", id |-> id, metadata |-> mce,
                   treat_errors_as_warnings |-> treat_errors_as_warnings]]
    ELSE IF Truthy(mcp_) /\ ~Truthy(mce)
    THEN [raised |-> "none",
          obj |-> [t |-> "MetadataWorkUnit", id |-> id, metadata |-> mcp_,
                   treat_errors_as_warnings |-> treat_errors_as_warnings]]
    ELSE [raised |-> "none",
          obj |-> [t |-> "MetadataWorkUnit", id |-> id, metadata |-> [t |-> "unset"],
                   treat_errors_as_warnings |-> treat_errors_as_warnings]]

-----------------------------------------------------------------------------
(* ingestion/source/pulsar.py: values *)

\* the topics a Pulsar cluster may list (full names, tenant and namespace included)
Topics == {"persistent://t/n/a", "persistent://t/m/b"}

\* make_dataset_urn_with_platform_instance: an urn is decided by its parts
make_dataset_urn_with_platform_instance(platform, name, instance, env) ==
    [t |-> "urn", platform |-> platform, name |-> name, instance |-> instance, env |-> env]

\* the urn the source derives for a topic (platform "pulsar", config.env "PROD")
TopicUrn(name) ==
    make_dataset_urn_with_platform_instance("pulsar", name, platform_instance, "PROD")

\* urns a checkpoint of an earlier run may hold: the cluster's topics and two
\* topics the cluster has no more
Urns ==
    {make_dataset_urn_with_platform_instance("pulsar", n, Str("inst"), "PROD") :
        n \in Topics \cup {"persistent://t/n/gone", "persistent://t/m/gone"}}

\* KafkaCheckpointState: the accumulator of observed topic urns
KafkaCheckpointState(urns) == [t |-> "KafkaCheckpointState", urns |-> urns]

\* KafkaCheckpointState.add_topic_urn
add_topic_urn(self, urn) == [self EXCEPT !.urns = @ \cup {urn}]

\* KafkaCheckpointState.get_topic_urns_not_in: urns of self absent from other
get_topic_urns_not_in(self, checkpoint) == self.urns \ checkpoint.urns

Checkpoint(state) == [t |-> "Checkpoint", state |-> state]

\* StatefulIngestionSourceBase.is_stateful_ingestion_configured
is_stateful_ingestion_configured ==
    stateful_ingestion # None /\ stateful_ingestion.enabled

\* Python's bool
Bool(b) == [t |-> "bool", b |-> b]

\* the truth test of the operands of an and-chain: a bool is its value, a
\* str is true unless empty, any other object as Truthy says
IsTrue(x) ==
    IF "t" \in DOMAIN x /\ x.t = "bool" THEN x.b
    ELSE IF "t" \in DOMAIN x /\ x.t = "str" THEN x.s # ""
    ELSE Truthy(x)

\* the JobId (a str) the source names its ingestion job with
get_default_ingestion_job_id == Str("ingest_from_pulsar_source")

\* the parenthesised operand of == in is_checkpointing_enabled: an and-chain
\* is worth its first false operand, or its last operand when none is false
CheckpointingOperand ==
    IF ~IsTrue(get_default_ingestion_job_id) THEN get_default_ingestion_job_id
    ELSE IF ~is_stateful_ingestion_configured THEN Bool(FALSE)
    ELSE IF ~IsTrue(stateful_ingestion) THEN stateful_ingestion
    ELSE Bool(stateful_ingestion.remove_stale_metadata)

\* is_checkpointing_enabled: job_id == (... and ... and ... and ...); a str
\* equals neither a bool nor None nor a config object
is_checkpointing_enabled(job_id) == job_id = CheckpointingOperand

\* the orders in which a set may be iterated: its enumerations
Orders(S) == {s \in [1..Cardinality(S) -> S] : SeqToSet(s) = S}

\* the urns the differ may come to iterate: those of the last checkpoint
LastUrns ==
    IF last_checkpoint # None /\ last_checkpoint.state # None
    THEN last_checkpoint.state.urns ELSE {}

\* the elements of S in the order it lists them
Iterate(S, order) == SelectSeq(order, LAMBDA u : u \in S)

RECURSIVE Flatten(_)
Flatten(ss) == IF ss = <<>> THEN <<>> ELSE Head(ss) \o Flatten(Tail(ss))

-----------------------------------------------------------------------------
(* ingestion/source/pulsar.py: PulsarSource *)

\* soft_delete_dataset issuing a hard delete
soft_delete_datasetHard(urn, type) ==
    <<MetadataWorkUnit([fmt |-> "soft-delete-{type}-{urn}", type |-> type, urn |-> urn], None,
        MetadataChangeProposalWrapper("dataset", "DELETE", urn, None, None,
            Str("status"), StatusClass(TRUE), None).obj,
        None, FALSE).obj>>

\* soft_delete_dataset: the work units it yields
soft_delete_dataset(urn, type) ==
    <<MetadataWorkUnit([fmt |-> "soft-delete-{type}-{urn}", type |-> type, urn |-> urn], None,
        MetadataChangeProposalWrapper("dataset", "UPSERT", urn, None, None,
            Str("status"), StatusClass(TRUE), None).obj,
        None, FALSE).obj>>

\* gen_removed_entity_workunits comparing the two checkpoints the wrong way round
gen_removed_entity_workunitsSwapped(order) ==
    IF /\ stateful_ingestion # None
       /\ stateful_ingestion.remove_stale_metadata
       /\ last_checkpoint # None
       /\ last_checkpoint.state # None
       /\ cur_checkpoint # None
       /\ cur_checkpoint.state # None
    THEN Flatten([i \in 1..Len(Iterate(get_topic_urns_not_in(cur_checkpoint.state, last_checkpoint.state), order)) |->
            soft_delete_dataset(Iterate(get_topic_urns_not_in(cur_checkpoint.state, last_checkpoint.state), order)[i], "topic")])
    ELSE <<>>

\* gen_removed_entity_workunits without the remove_stale_metadata test
gen_removed_entity_workunitsUnguarded(order) ==
    IF /\ last_checkpoint # None
       /\ last_checkpoint.state # None
       /\ cur_checkpoint # None
       /\ cur_checkpoint.state # None
    THEN Flatten([i \in 1..Len(Iterate(get_topic_urns_not_in(last_checkpoint.state, cur_checkpoint.state), order)) |->
            soft_delete_dataset(Iterate(get_topic_urns_not_in(last_checkpoint.state, cur_checkpoint.state), order)[i], "topic")])
    ELSE <<>>

\* gen_removed_entity_workunits: the work units one invocation yields, the
\* stale urns being iterated in the given order
gen_removed_entity_workunits(order) ==
    IF /\ stateful_ingestion # None
       /\ stateful_ingestion.remove_stale_metadata
       /\ last_checkpoint # None
       /\ last_checkpoint.state # None
       /\ cur_checkpoint # None
       /\ cur_checkpoint.state # None
    THEN Flatten([i \in 1..Len(Iterate(get_topic_urns_not_in(last_checkpoint.state, cur_checkpoint.state), order)) |->
            soft_delete_dataset(Iterate(get_topic_urns_not_in(last_checkpoint.state, cur_checkpoint.state), order)[i], "topic")])
    ELSE <<>>

\* a discovery work unit of _extract_record
DiscoveryWorkUnit(dataset_urn, aspectName, aspect) ==
    MetadataWorkUnit([fmt |-> "{dataset_urn}-{aspectName}", type |-> aspectName, urn |-> dataset_urn], None,
        MetadataChangeProposalWrapper("dataset", "UPSERT", dataset_urn, None, None,
            Str(aspectName), aspect, None).obj,
        None, FALSE).obj

\* _extract_record: the work units yielded for one topic
_extract_record(name, has_schema, domain_urn) ==
    LET dataset_urn == TopicUrn(name)
    IN  <<DiscoveryWorkUnit(dataset_urn, "status", StatusClass(FALSE))>>
        \o (IF has_schema
            THEN <<DiscoveryWorkUnit(dataset_urn, "schemaMetadata", Aspect("SchemaMetadata", TRUE)),
                   DiscoveryWorkUnit(dataset_urn, "datasetProperties", Aspect("DatasetPropertiesClass", TRUE))>>
            ELSE <<>>)
        \o <<DiscoveryWorkUnit(dataset_urn, "browsePaths", Aspect("BrowsePathsClass", TRUE))>>
        \o (IF platform_instance # None
            THEN <<DiscoveryWorkUnit(dataset_urn, "dataPlatformInstance", Aspect("DataPlatformInstanceClass", TRUE))>>
            ELSE <<>>)
        \o <<DiscoveryWorkUnit(dataset_urn, "subTypes", Aspect("SubTypesClass", TRUE))>>
        \o (IF domain_urn # None
            THEN <<DiscoveryWorkUnit(dataset_urn, "domains", Aspect("DomainsClass", TRUE))>>
            ELSE <<>>)

\* _add_topic_to_checkpoint leaving the checkpoint state as it was
_add_topic_to_checkpointForgetting(name) == cur_checkpoint

\* _add_topic_to_checkpoint: the current checkpoint after the call
_add_topic_to_checkpoint(name) ==
    IF cur_checkpoint # None
    THEN [cur_checkpoint EXCEPT !.state = add_topic_urn(@, TopicUrn(name))]
    ELSE cur_checkpoint

-----------------------------------------------------------------------------
(* ingestion/extractor/mce_extractor.py *)

RecordEnvelope(record, metadata) ==
    [t |-> "RecordEnvelope", record |-> record, metadata |-> metadata]

IsMetadataChangeEvent(m) == m.t = "DictWrapper" /\ m.cls = "MetadataChangeEvent"
IsMetadataChangeProposal(m) == m.t = "DictWrapper" /\ m.cls = "MetadataChangeProposalClass"
IsMetadataChangeProposalWrapper(m) == m.t = "MetadataChangeProposalWrapper"

\* the isinstance test of lines 43-50
IsStamped(m) ==
    IsMetadataChangeEvent(m) \/ IsMetadataChangeProposal(m) \/ IsMetadataChangeProposalWrapper(m)

\* workunit.metadata.validate(), dispatched on the payload's class
metadata_validate(m) ==
    IF IsMetadataChangeProposalWrapper(m) THEN validate(m)
    ELSE IF IsMetadataChangeProposal(m)
    THEN [ret |-> MetadataChangeProposalClass_validate(m), self |-> m]
    ELSE [ret |-> m.valid, self |-> m]

\* get_records without the test for an empty aspect list
get_recordsNoAspectCheck(workunit, time, runId) ==
    IF workunit.t = "MetadataWorkUnit"
    THEN IF workunit.metadata.t = "unset"
         THEN [workunit |-> workunit, raised |-> "AttributeError", out |-> <<>>]
         ELSE LET stamped ==
                      IF IsStamped(workunit.metadata)
                      THEN [workunit EXCEPT !.metadata.systemMetadata = SystemMetadata(time, runId)]
                      ELSE workunit
              IN  IF FALSE
                  THEN [workunit |-> stamped, raised |-> "AttributeError", out |-> <<>>]
                  ELSE LET v == metadata_validate(stamped.metadata)
                           checked == [stamped EXCEPT !.metadata = v.self]
                       IN  IF ~v.ret
                           THEN [workunit |-> checked, raised |-> "ValueError", out |-> <<>>]
                           ELSE [workunit |-> checked, raised |-> "none",
                                 out |-> <<RecordEnvelope(checked.metadata, [workunit_id |-> checked.id])>>]
    ELSE IF workunit.t = "UsageStatsWorkUnit"
    THEN IF ~workunit.usageStats.valid
         THEN [workunit |-> workunit, raised |-> "ValueError", out |-> <<>>]
         ELSE [workunit |-> workunit, raised |-> "none",
               out |-> <<RecordEnvelope(workunit.usageStats, [workunit_id |-> workunit.id])>>]
    ELSE [workunit |-> workunit, raised |-> "ValueError", out |-> <<>>]

\* get_records yielding MetadataWorkUnit payloads without calling validate()
get_recordsNoValidate(workunit, time, runId) ==
    IF workunit.t = "MetadataWorkUnit"
    THEN IF workunit.metadata.t = "unset"
         THEN [workunit |-> workunit, raised |-> "AttributeError", out |-> <<>>]
         ELSE LET stamped ==
                      IF IsStamped(workunit.metadata)
                      THEN [workunit EXCEPT !.metadata.systemMetadata = SystemMetadata(time, runId)]
                      ELSE workunit
              IN  IF IsMetadataChangeEvent(stamped.metadata) /\ Len(stamped.metadata.proposedSnapshot.aspects) = 0
                  THEN [workunit |-> stamped, raised |-> "AttributeError", out |-> <<>>]
                  ELSE LET v == metadata_validate(stamped.metadata)
                           checked == [stamped EXCEPT !.metadata = v.self]
                       IN  IF FALSE
                           THEN [workunit |-> checked, raised |-> "ValueError", out |-> <<>>]
                           ELSE [workunit |-> checked, raised |-> "none",
                                 out |-> <<RecordEnvelope(checked.metadata, [workunit_id |-> checked.id])>>]
    ELSE IF workunit.t = "UsageStatsWorkUnit"
    THEN IF ~workunit.usageStats.valid
         THEN [workunit |-> workunit, raised |-> "ValueError", out |-> <<>>]
         ELSE [workunit |-> workunit, raised |-> "none",
               out |-> <<RecordEnvelope(workunit.usageStats, [workunit_id |-> workunit.id])>>]
    ELSE [workunit |-> workunit, raised |-> "ValueError", out |-> <<>>]

\* get_records yielding envelopes that do not carry the work unit id
get_recordsNoId(workunit, time, runId) ==
    IF workunit.t = "MetadataWorkUnit"
    THEN IF workunit.metadata.t = "unset"
         THEN [workunit |-> workunit, raised |-> "AttributeError", out |-> <<>>]
         ELSE LET stamped ==
                      IF IsStamped(workunit.metadata)
                      THEN [workunit EXCEPT !.metadata.systemMetadata = SystemMetadata(time, runId)]
                      ELSE workunit
              IN  IF IsMetadataChangeEvent(stamped.metadata) /\ Len(stamped.metadata.proposedSnapshot.aspects) = 0
                  THEN [workunit |-> stamped, raised |-> "AttributeError", out |-> <<>>]
                  ELSE LET v == metadata_validate(stamped.metadata)
                           checked == [stamped EXCEPT !.metadata = v.self]
                       IN  IF ~v.ret
                           THEN [workunit |-> checked, raised |-> "ValueError", out |-> <<>>]
                           ELSE [workunit |-> checked, raised |-> "none",
                                 out |-> <<RecordEnvelope(checked.metadata, [workunit_id |-> ""])>>]
    ELSE IF workunit.t = "UsageStatsWorkUnit"
    THEN IF ~workunit.usageStats.valid
         THEN [workunit |-> workunit, raised |-> "ValueError", out |-> <<>>]
         ELSE [workunit |-> workunit, raised |-> "none",
               out |-> <<RecordEnvelope(workunit.usageStats, [workunit_id |-> workunit.id])>>]
    ELSE [workunit |-> workunit, raised |-> "ValueError", out |-> <<>>]

\* get_records stamping systemMetadata only when the payload has none
get_recordsStampIfAbsent(workunit, time, runId) ==
    IF workunit.t = "MetadataWorkUnit"
    THEN IF workunit.metadata.t = "unset"
         THEN [workunit |-> workunit, raised |-> "AttributeError", out |-> <<>>]
         ELSE LET stamped ==
                      IF IsStamped(workunit.metadata) /\ workunit.metadata.systemMetadata = None
                      THEN [workunit EXCEPT !.metadata.systemMetadata = SystemMetadata(time, runId)]
                      ELSE workunit
              IN  IF IsMetadataChangeEvent(stamped.metadata) /\ Len(stamped.metadata.proposedSnapshot.aspects) = 0
                  THEN [workunit |-> stamped, raised |-> "AttributeError", out |-> <<>>]
                  ELSE LET v == metadata_validate(stamped.metadata)
                           checked == [stamped EXCEPT !.metadata = v.self]
                       IN  IF ~v.ret
                           THEN [workunit |-> checked, raised |-> "ValueError", out |-> <<>>]
                           ELSE [workunit |-> checked, raised |-> "none",
                                 out |-> <<RecordEnvelope(checked.metadata, [workunit_id |-> checked.id])>>]
    ELSE IF workunit.t = "UsageStatsWorkUnit"
    THEN IF ~workunit.usageStats.valid
         THEN [workunit |-> workunit, raised |-> "ValueError", out |-> <<>>]
         ELSE [workunit |-> workunit, raised |-> "none",
               out |-> <<RecordEnvelope(workunit.usageStats, [workunit_id |-> workunit.id])>>]
    ELSE [workunit |-> workunit, raised |-> "ValueError", out |-> <<>>]

\* get_records leaving the failure of a lenient work unit to a warning: with
\* treat_errors_as_warnings set it ends without an exception and without an envelope
get_recordsLenient(workunit, time, runId) ==
    IF workunit.t = "MetadataWorkUnit"
    THEN IF workunit.metadata.t = "unset"
         THEN [workunit |-> workunit, raised |-> "AttributeError", out |-> <<>>]
         ELSE LET stamped ==
                      IF IsStamped(workunit.metadata)
                      THEN [workunit EXCEPT !.metadata.systemMetadata = SystemMetadata(time, runId)]
                      ELSE workunit
              IN  IF IsMetadataChangeEvent(stamped.metadata) /\ Len(stamped.metadata.proposedSnapshot.aspects) = 0
                  THEN [workunit |-> stamped, raised |-> "AttributeError", out |-> <<>>]
                  ELSE LET v == metadata_validate(stamped.metadata)
                           checked == [stamped EXCEPT !.metadata = v.self]
                       IN  IF ~v.ret
                           THEN [workunit |-> checked,
                                 raised |-> IF workunit.treat_errors_as_warnings THEN "none" ELSE "ValueError",
                                 out |-> <<>>]
                           ELSE [workunit |-> checked, raised |-> "none",
                                 out |-> <<RecordEnvelope(checked.metadata, [workunit_id |-> checked.id])>>]
    ELSE IF workunit.t = "UsageStatsWorkUnit"
    THEN IF ~workunit.usageStats.valid
         THEN [workunit |-> workunit, raised |-> "ValueError", out |-> <<>>]
         ELSE [workunit |-> workunit, raised |-> "none",
               out |-> <<RecordEnvelope(workunit.usageStats, [workunit_id |-> workunit.id])>>]
    ELSE [workunit |-> workunit, raised |-> "ValueError", out |-> <<>>]

\* get_records stamping systemMetadata after the two checks, on the way to the yield
get_recordsStampLast(workunit, time, runId) ==
    IF workunit.t = "MetadataWorkUnit"
    THEN IF workunit.metadata.t = "unset"
         THEN [workunit |-> workunit, raised |-> "AttributeError", out |-> <<>>]
         ELSE IF IsMetadataChangeEvent(workunit.metadata) /\ Len(workunit.metadata.proposedSnapshot.aspects) = 0
              THEN [workunit |-> workunit, raised |-> "AttributeError", out |-> <<>>]
              ELSE LET v == metadata_validate(workunit.metadata)
                       checked == [workunit EXCEPT !.metadata = v.self]
                       stamped ==
                           IF IsStamped(checked.metadata)
                           THEN [checked EXCEPT !.metadata.systemMetadata = SystemMetadata(time, runId)]
                           ELSE checked
                   IN  IF ~v.ret
                       THEN [workunit |-> checked, raised |-> "ValueError", out |-> <<>>]
                       ELSE [workunit |-> stamped, raised |-> "none",
                             out |-> <<RecordEnvelope(stamped.metadata, [workunit_id |-> stamped.id])>>]
    ELSE IF workunit.t = "UsageStatsWorkUnit"
    THEN IF ~workunit.usageStats.valid
         THEN [workunit |-> workunit, raised |-> "ValueError", out |-> <<>>]
         ELSE [workunit |-> workunit, raised |-> "none",
               out |-> <<RecordEnvelope(workunit.usageStats, [workunit_id |-> workunit.id])>>]
    ELSE [workunit |-> workunit, raised |-> "ValueError", out |-> <<>>]

\* get_records, run to exhaustion: the work unit as the call leaves it, the
\* exception that ended the generator ("none" if it returned) and the
\* envelopes it yielded.
get_records(workunit, time, runId) ==
    IF workunit.t = "MetadataWorkUnit"
    THEN IF workunit.metadata.t = "unset"
         THEN [workunit |-> workunit, raised |-> "AttributeError", out |-> <<>>]
         ELSE LET stamped ==
                      IF IsStamped(workunit.metadata)
                      THEN [workunit EXCEPT !.metadata.systemMetadata = SystemMetadata(time, runId)]
                      ELSE workunit
              IN  IF IsMetadataChangeEvent(stamped.metadata) /\ Len(stamped.metadata.proposedSnapshot.aspects) = 0
                  THEN [workunit |-> stamped, raised |-> "AttributeError", out |-> <<>>]
                  ELSE LET v == metadata_validate(stamped.metadata)
                           checked == [stamped EXCEPT !.metadata = v.self]
                       IN  IF ~v.ret
                           THEN [workunit |-> checked, raised |-> "ValueError", out |-> <<>>]
                           ELSE [workunit |-> checked, raised |-> "none",
                                 out |-> <<RecordEnvelope(checked.metadata, [workunit_id |-> checked.id])>>]
    ELSE IF workunit.t = "UsageStatsWorkUnit"
    THEN IF ~workunit.usageStats.valid
         THEN [workunit |-> workunit, raised |-> "ValueError", out |-> <<>>]
         ELSE [workunit |-> workunit, raised |-> "none",
               out |-> <<RecordEnvelope(workunit.usageStats, [workunit_id |-> workunit.id])>>]
    ELSE [workunit |-> workunit, raised |-> "ValueError", out |-> <<>>]

-----------------------------------------------------------------------------
(* api/entities/dataprocess/dataprocess_instance.py *)

DataFlowUrn(orchestrator, flow_id, env) ==
    [t |-> "DataFlowUrn", orchestrator |-> orchestrator, flow_id |-> flow_id, env |-> env]

DataJobUrn(flow_urn, job_id) ==
    [t |-> "DataJobUrn", flow_urn |-> flow_urn, job_id |-> job_id]

DataProcessInstanceUrn(id) == [t |-> "DataProcessInstanceUrn", id |-> id]

\* a DataFlow and a DataJob of datahub.api.entities.datajob, by the fields
\* emit_process_start and from_datajob / from_dataflow read or pass
DataFlow(cluster, orchestrator, id) ==
    [t |-> "DataFlow", urn |-> DataFlowUrn(orchestrator, id, cluster),
     cluster |-> cluster, orchestrator |-> orchestrator, id |-> id]

DataJob(id, upstream_urns, flow_urn, inlets, outlets) ==
    [t |-> "DataJob", urn |-> DataJobUrn(flow_urn, id), id |-> id,
     upstream_urns |-> upstream_urns, flow_urn |-> flow_urn,
     inlets |-> inlets, outlets |-> outlets]

\* a change proposal with the keyword arguments every call site of this file uses
Proposal(entityType, entityUrn, aspectName, aspect) ==
    MetadataChangeProposalWrapper(entityType, "UPSERT", [t |-> "urnstr", urn |-> entityUrn], None, None, Str(aspectName), aspect, None).obj

\* DataFlow.generate_mcp and DataJob.generate_mcp: the proposals that describe
\* the template object itself
template_generate_mcp(template_object) ==
    IF template_object.t = "DataFlow"
    THEN <<Proposal("dataFlow", template_object.urn, "dataFlowInfo",
                [t |-> "DictWrapper", cls |-> "DataFlowInfoClass", len |-> 1, valid |-> TRUE,
                 name |-> template_object.id])>>
    ELSE <<Proposal("dataJob", template_object.urn, "dataJobInfo",
                [t |-> "DictWrapper", cls |-> "DataJobInfoClass", len |-> 1, valid |-> TRUE,
                 name |-> template_object.id]),
           Proposal("dataJob", template_object.urn, "dataJobInputOutput",
                [t |-> "DictWrapper", cls |-> "DataJobInputOutputClass", len |-> 3, valid |-> TRUE,
                 inputDatasets |-> template_object.inlets,
                 outputDatasets |-> template_object.outlets,
                 inputDatajobs |-> template_object.upstream_urns])>>

\* the dataclass-generated __init__ and __post_init__
DataProcessInstance(id, template_urn, inlets, outlets, upstream_urns) ==
    [t |-> "DataProcessInstance", id |-> id, urn |-> DataProcessInstanceUrn(id),
     template_urn |-> template_urn, parent_instance |-> None,
     inlets |-> inlets, outlets |-> outlets, upstream_urns |-> upstream_urns,
     _template_object |-> None]

from_datajob(datajob, id, clone_inlets, clone_outlets) ==
    [DataProcessInstance(id, datajob.urn, <<>>, <<>>, <<>>) EXCEPT
        !._template_object = datajob,
        !.inlets = IF clone_inlets THEN datajob.inlets ELSE @,
        !.outlets = IF clone_outlets THEN datajob.outlets ELSE @]

from_dataflow(dataflow, id) ==
    [DataProcessInstance(id, dataflow.urn, <<>>, <<>>, <<>>) EXCEPT
        !._template_object = dataflow]

RunEvent(status, timestampMillis) ==
    [t |-> "DictWrapper", cls |-> "DataProcessInstanceRunEventClass", len |-> 2,
     valid |-> TRUE, status |-> status, timestampMillis |-> timestampMillis]

start_event_mcp(self, start_timestamp_millis) ==
    <<Proposal("dataProcessInstance", self.urn, "dataProcessInstanceRunEvent",
               RunEvent("STARTED", start_timestamp_millis))>>

end_event_mcp(self, end_timestamp_millis) ==
    <<Proposal("dataProcessInstance", self.urn, "dataProcessInstanceRunEvent",
               RunEvent("COMPLETE", end_timestamp_millis))>>

generate_inlet_outlet_mcp(self) ==
    (IF self.inlets # <<>>
     THEN <<Proposal("dataProcessInstance", self.urn, "dataProcessInstanceInput",
                [t |-> "DictWrapper", cls |-> "DataProcessInstanceInput", len |-> 1,
                 valid |-> TRUE, inputs |-> self.inlets])>>
     ELSE <<>>)
    \o (IF self.outlets # <<>>
        THEN <<Proposal("dataProcessInstance", self.urn, "dataProcessInstanceOutput",
                   [t |-> "DictWrapper", cls |-> "DataProcessInstanceOutput", len |-> 1,
                    valid |-> TRUE, outputs |-> self.outlets])>>
        ELSE <<>>)
    \o [k \in 1..Len(self.inlets \o self.outlets) |->
            Proposal("dataset", (self.inlets \o self.outlets)[k], "status", StatusClass(FALSE))]

\* the two proposals generate_mcp builds itself (the created audit stamp, which
\* holds the wall-clock time, is left out of the properties)
PropertiesProposal(self) ==
    Proposal("dataProcessInstance", self.urn, "dataProcessInstanceProperties",
        [t |-> "DictWrapper", cls |-> "DataProcessInstanceProperties", len |-> 2,
         valid |-> TRUE, name |-> self.id])

RelationshipsProposal(self) ==
    Proposal("dataProcessInstance", self.urn, "dataProcessInstanceRelationships",
        [t |-> "DictWrapper", cls |-> "DataProcessInstanceRelationships", len |-> 3,
         valid |-> TRUE, upstreamInstances |-> self.upstream_urns,
         parentTemplate |-> self.template_urn, parentInstance |-> self.parent_instance])

\* generate_mcp yielding the relationships before the properties
generate_mcpRelationshipsFirst(self) ==
    <<RelationshipsProposal(self), PropertiesProposal(self)>> \o generate_inlet_outlet_mcp(self)

generate_mcp(self) ==
    <<PropertiesProposal(self), RelationshipsProposal(self)>> \o generate_inlet_outlet_mcp(self)

\* what the transport handle does with its nth emit call: a handle of the
\* asynchronous shape needs emit(proposal, callback), one of the synchronous
\* shape takes emit(proposal) alone and raises when the remote rejects the
\* write, here the fail_at-th
transport_emit(emitter, args, nth, fail_at) ==
    IF emitter.capability = "async"
    THEN IF args = <<>> THEN "TypeError" ELSE "none"
    ELSE IF args # <<>> THEN "TypeError"
    ELSE IF nth = fail_at THEN "OperationalError"
    ELSE "none"

\* _emit_mcp without the assert on the callback
_emit_mcpNoAssert(mcp_, emitter, callback) ==
    IF emitter.cls = "DatahubKafkaEmitter"
    THEN [raised |-> "none", call |-> <<[mcp |-> mcp_, args |-> <<callback>>]>>]
    ELSE [raised |-> "none", call |-> <<[mcp |-> mcp_, args |-> <<>>]>>]

\* _emit_mcp up to its call on the emitter: the call it makes, or the
\* exception raised before any
_emit_mcp(mcp_, emitter, callback) ==
    IF emitter.cls = "DatahubKafkaEmitter"
    THEN IF callback = None
         THEN [raised |-> "AssertionError", call |-> <<>>]
         ELSE [raised |-> "none", call |-> <<[mcp |-> mcp_, args |-> <<callback>>]>>]
    ELSE [raised |-> "none", call |-> <<[mcp |-> mcp_, args |-> <<>>]>>]

\* the emission loop going on with the next proposal after the transport has
\* raised, the exception kept for the end
RECURSIVE EmitFromResuming(_, _, _, _, _, _)
EmitFromResuming(mcps, i, emitter, callback, fail_at, sent) ==
    IF i > Len(mcps)
    THEN [raised |-> "none", sent |-> sent]
    ELSE LET d == _emit_mcp(mcps[i], emitter, callback)
         IN  IF d.raised # "none"
             THEN [raised |-> d.raised, sent |-> sent]
             ELSE LET made == sent \o d.call
                      outcome == transport_emit(emitter, d.call[1].args, Len(made), fail_at)
                  IN  IF outcome # "none"
                      THEN [raised |-> outcome,
                            sent |-> EmitFromResuming(mcps, i + 1, emitter, callback, fail_at, made).sent]
                      ELSE EmitFromResuming(mcps, i + 1, emitter, callback, fail_at, made)

\* for mcp in ...: self._emit_mcp(mcp, emitter, callback), from the i-th
\* proposal on; sent holds the calls made on the emitter so far
RECURSIVE EmitFrom(_, _, _, _, _, _)
EmitFrom(mcps, i, emitter, callback, fail_at, sent) ==
    IF i > Len(mcps)
    THEN [raised |-> "none", sent |-> sent]
    ELSE LET d == _emit_mcp(mcps[i], emitter, callback)
         IN  IF d.raised # "none"
             THEN [raised |-> d.raised, sent |-> sent]
             ELSE LET made == sent \o d.call
                      outcome == transport_emit(emitter, d.call[1].args, Len(made), fail_at)
                  IN  IF outcome # "none"
                      THEN [raised |-> outcome, sent |-> made]
                      ELSE EmitFrom(mcps, i + 1, emitter, callback, fail_at, made)

\* DataJobUrn.create_from_ids(job_id = upstream's instance id, data_flow_urn)
UpstreamJobUrns(self, job_flow_urn) ==
    [k \in 1..Len(self.upstream_urns) |-> DataJobUrn(job_flow_urn, self.upstream_urns[k].id)]

\* the proposals emit_process_start hands to _emit_mcp for the template, in
\* order: those of lines 138-139 or 147-148 when the template object is built
\* from the urn, then those of lines 163-164.  The DataJob built at line 142
\* shares its upstream list with input_datajob_urns, which lines 153-159 fill
\* between the two loops.
TemplateProposals(self) ==
    IF self._template_object = None
    THEN IF self.template_urn.t = "DataFlowUrn"
         THEN LET template_object == DataFlow(self.template_urn.env, self.template_urn.orchestrator, self.template_urn.flow_id)
              IN  template_generate_mcp(template_object) \o template_generate_mcp(template_object)
         ELSE LET template_object == DataJob(self.template_urn.job_id, <<>>, self.template_urn.flow_urn, <<>>, <<>>)
                  filled == [template_object EXCEPT !.upstream_urns = UpstreamJobUrns(self, self.template_urn.flow_urn)]
              IN  template_generate_mcp(template_object) \o template_generate_mcp(filled)
    ELSE template_generate_mcp(self._template_object)

emit_process_start(self, emitter, start_timestamp_millis, emit_template, callback, fail_at) ==
    IF emit_template /\ self.template_urn # None /\ self._template_object = None
          /\ self.template_urn.t \notin {"DataFlowUrn", "DataJobUrn"}
    THEN [raised |-> "Exception", sent |-> <<>>]
    ELSE EmitFrom((IF emit_template /\ self.template_urn # None
                   THEN TemplateProposals(self) ELSE <<>>)
                    \o generate_mcp(self)
                    \o start_event_mcp(self, start_timestamp_millis),
                  1, emitter, callback, fail_at, <<>>)

emit_process_end(self, emitter, end_timestamp_millis, callback, fail_at) ==
    EmitFrom(end_event_mcp(self, end_timestamp_millis), 1, emitter, callback, fail_at, <<>>)

emit(self, emitter, callback, fail_at) ==
    EmitFrom(generate_mcp(self), 1, emitter, callback, fail_at, <<>>)

-----------------------------------------------------------------------------
(* emitter/serialization_helper.py *)

\* A str is the sequence of its dot-separated segments; both patterns end in a
\* dot, so a pattern of n segments is a prefix of the keys that have those n
\* segments and at least one more.
InternalPattern == <<"com", "linkedin", "pegasus2avro">>
WirePattern == <<"com", "linkedin">>
FieldDiscriminator == <<"fieldDiscriminator">>

\* key.startswith(pattern)
startswith(key, pattern) ==
    Len(key) > Len(pattern) /\ SubSeq(key, 1, Len(pattern)) = pattern

\* key.replace(from_pattern, to_pattern, 1) for a key that starts with from_pattern
replace(key, from_pattern, to_pattern) ==
    to_pattern \o SubSeq(key, Len(from_pattern) + 1, Len(key))

\* the values of an aspect's object form: dict, list, str, bytes and None
JDict(items) == [t |-> "dict", items |-> items]
JList(elems) == [t |-> "list", elems |-> elems]
JStr(s) == [t |-> "jstr", s |-> s]
JBytes(s) == [t |-> "bytes", s |-> s]

\* an exception leaving the call
Raise(exc) == [t |-> "raise", exc |-> exc]

\* _json_transform reading the discriminated field with dict.get and keeping
\* the other entries
RECURSIVE _json_transformKeeping(_, _, _)
_json_transformKeeping(obj, from_pattern, to_pattern) ==
    IF obj.t = "dict"
    THEN LET keys == DOMAIN obj.items
             key == CHOOSE k \in keys : TRUE
         IN  IF Cardinality(keys) = 1 /\ startswith(key, from_pattern)
             THEN JDict(replace(key, from_pattern, to_pattern) :>
                            _json_transformKeeping(obj.items[key], from_pattern, to_pattern))
             ELSE LET kept == {k \in keys : obj.items[k] # None}
                  IN  JDict([k \in kept |-> _json_transformKeeping(obj.items[k], from_pattern, to_pattern)])
    ELSE IF obj.t = "list"
    THEN JList([i \in 1..Len(obj.elems) |-> _json_transformKeeping(obj.elems[i], from_pattern, to_pattern)])
    ELSE IF obj.t = "bytes" THEN JStr(obj.s)
    ELSE obj

\* _json_transform: the transformed value, or the exception that left the call
RECURSIVE _json_transform(_, _, _)
_json_transform(obj, from_pattern, to_pattern) ==
    IF obj.t = "dict"
    THEN LET keys == DOMAIN obj.items
             key == CHOOSE k \in keys : TRUE
         IN  IF Cardinality(keys) = 1 /\ startswith(key, from_pattern)
             THEN LET value == _json_transform(obj.items[key], from_pattern, to_pattern)
                  IN  IF value.t = "raise" THEN value
                      ELSE JDict(replace(key, from_pattern, to_pattern) :> value)
             ELSE IF FieldDiscriminator \in keys
             THEN LET field == obj.items[FieldDiscriminator]
                  IN  IF field.t \in {"dict", "list"} THEN Raise("TypeError")
                      ELSE IF field.t # "jstr" THEN Raise("KeyError")
                      ELSE IF field.s \notin keys THEN Raise("KeyError")
                      ELSE LET value == _json_transform(obj.items[field.s], from_pattern, to_pattern)
                           IN  IF value.t = "raise" THEN value
                               ELSE JDict(field.s :> value)
             ELSE LET kept == {k \in keys : obj.items[k] # None}
                      new_obj == [k \in kept |-> _json_transform(obj.items[k], from_pattern, to_pattern)]
                      failed == {k \in kept : new_obj[k].t = "raise"}
                  IN  IF failed # {} THEN new_obj[CHOOSE k \in failed : TRUE]
                      ELSE JDict(new_obj)
    ELSE IF obj.t = "list"
    THEN LET new_list == [i \in 1..Len(obj.elems) |-> _json_transform(obj.elems[i], from_pattern, to_pattern)]
             failed == {i \in 1..Len(obj.elems) : new_list[i].t = "raise"}
         IN  IF failed # {} THEN new_list[CHOOSE i \in failed : \A j \in failed : i <= j]
             ELSE JList(new_list)
    ELSE IF obj.t = "bytes" THEN JStr(obj.s)
    ELSE obj

pre_json_transform(obj) == _json_transform(obj, InternalPattern, WirePattern)

\* post_json_transform leaving the wire form as it is
post_json_transformIdentity(obj) == obj

post_json_transform(obj) == _json_transform(obj, WirePattern, InternalPattern)

-----------------------------------------------------------------------------
(* ingestion/graph/client.py *)

\* a key a dict does not have
Absent == [t |-> "absent"]

\* dict.get(key, default) on a dict given by its entries, Absent for a missing one
dict_get(d, key, default) == IF d[key] = Absent THEN default ELSE d[key]

\* an instance of a generated aspect class built from its object form
from_obj(aspect_type, obj) ==
    [t |-> "DictWrapper", cls |-> aspect_type, len |-> Cardinality(DOMAIN obj),
     valid |-> TRUE, obj |-> obj]

\* json.loads: the text of an object form gives that object form, any other
\* text raises
json_loads(text) ==
    IF text.t = "json" THEN [raised |-> "none", ret |-> text.obj]
    ELSE [raised |-> "JSONDecodeError", ret |-> None]

\* an urn as a str: the sequence of its colon-separated parts.
\* _guess_entity_type asserts the urn:li: prefix and returns the third part.
_guess_entity_type(urn) ==
    IF Len(urn) > 2 /\ SubSeq(urn, 1, 2) = <<"urn", "li">>
    THEN [raised |-> "none", ret |-> urn[3]]
    ELSE [raised |-> "AssertionError", ret |-> ""]

\* _post_generic, given what the session's post comes back with: a status
\* that raise_for_status() rejects becomes an OperationalError, with the
\* body as info when it parses and the message of the HTTPError when not
_post_generic(response) ==
    IF response.t = "unreachable" THEN [raised |-> "ConnectionError", ret |-> None]
    ELSE IF response.status_code >= 400
    THEN [raised |-> "OperationalError",
          ret |-> IF response.json.t = "notjson" THEN [t |-> "dict", message |-> "HTTPError"]
                  ELSE response.json]
    ELSE IF response.json.t = "notjson" THEN [raised |-> "JSONDecodeError", ret |-> None]
    ELSE [raised |-> "none", ret |-> response.json]

\* get_latest_timeseries_value, the server answering the post with response
get_latest_timeseries_value(entity_urn, aspect_name, aspect_type, filter_criteria_map, response) ==
    IF _guess_entity_type(entity_urn).raised # "none"
    THEN [raised |-> "AssertionError", ret |-> None]
    ELSE LET resp == _post_generic(response)
         IN  IF resp.raised # "none" THEN [raised |-> resp.raised, ret |-> None]
             ELSE IF dict_get(resp.ret, "value", [t |-> "dict", values |-> Absent]) = None
             THEN [raised |-> "AttributeError", ret |-> None]
             ELSE LET values == dict_get(dict_get(resp.ret, "value", [t |-> "dict", values |-> Absent]), "values", None)
                  IN  IF values = None \/ values.elems = <<>>
                      THEN [raised |-> "none", ret |-> None]
                      ELSE IF Len(values.elems) # 1
                      THEN [raised |-> "AssertionError", ret |-> None]
                      ELSE LET aspect_json == dict_get(dict_get(values.elems[1], "aspect", [t |-> "dict", value |-> Absent]), "value", None)
                           IN  IF aspect_json = None \/ aspect_json.t = "empty"
                               THEN [raised |-> "OperationalError", ret |-> None]
                               ELSE IF json_loads(aspect_json).raised # "none"
                               THEN [raised |-> json_loads(aspect_json).raised, ret |-> None]
                               ELSE [raised |-> "none", ret |-> from_obj(aspect_type, json_loads(aspect_json).ret)]

-----------------------------------------------------------------------------
(* The ingestion reporting provider and the graph of its unit test *)
(* tests/unit/stateful_ingestion/provider/test_datahub_ingestion_reporting_provider.py *)

\* the static members of the test case
pipeline_name == "test_pipeline"
platform_instance_id == "test_platform_instance_1"
job_names == <<"job1", "job2">>

\* ReportingJobStateType(...): the run summary of one job
ReportingJobStateType(pipelineName, platformInstanceId, runId, runStatus) ==
    from_obj("DatahubIngestionRunSummaryClass",
             [pipelineName |-> pipelineName, platformInstanceId |-> platformInstanceId,
              runId |-> runId, runStatus |-> runStatus])

\* JobStateKey(pipeline_name, platform_instance_id, job_names)
JobStateKey(pipelineName, platformInstanceId, jobNames) ==
    [pipeline_name |-> pipelineName, platform_instance_id |-> platformInstanceId,
     job_names |-> jobNames]

\* the urn of the synthetic dataJob entity of an identity key
get_data_job_urn(pipelineName, platformInstanceId, jobName) ==
    [t |-> "urnstr", urn |-> <<"urn", "li", "dataJob", pipelineName, platformInstanceId, jobName>>]

\* the entry the graph holds for an urn, as a set of at most one proposal
Emitted(mcps, entity_urn) == {e.mcpw : e \in {x \in mcps : x.urn = entity_urn}}

\* monkey_patch_emit_mcp keeping the proposal it already holds for the urn
monkey_patch_emit_mcpKeepingFirst(mcps, mcpw) ==
    IF mcpw.entityType # "dataJob" \/ mcpw.aspectName # Str("datahubIngestionRunSummary")
          \/ mcpw.entityUrn = None
    THEN [raised |-> "AssertionError", mcps_emitted |-> mcps]
    ELSE [raised |-> "none",
          mcps_emitted |-> IF Emitted(mcps, mcpw.entityUrn) # {} THEN mcps
                           ELSE mcps \cup {[urn |-> mcpw.entityUrn, mcpw |-> mcpw]}]

\* monkey_patch_emit_mcp forgetting what it holds for the other urns
monkey_patch_emit_mcpReplacing(mcps, mcpw) ==
    IF mcpw.entityType # "dataJob" \/ mcpw.aspectName # Str("datahubIngestionRunSummary")
          \/ mcpw.entityUrn = None
    THEN [raised |-> "AssertionError", mcps_emitted |-> mcps]
    ELSE [raised |-> "none", mcps_emitted |-> {[urn |-> mcpw.entityUrn, mcpw |-> mcpw]}]

\* monkey_patch_emit_mcp: self.mcps_emitted[mcpw.entityUrn] = mcpw, after the
\* three assertions
monkey_patch_emit_mcp(mcps, mcpw) ==
    IF mcpw.entityType # "dataJob" \/ mcpw.aspectName # Str("datahubIngestionRunSummary")
          \/ mcpw.entityUrn = None
    THEN [raised |-> "AssertionError", mcps_emitted |-> mcps]
    ELSE [raised |-> "none",
          mcps_emitted |-> {x \in mcps : x.urn # mcpw.entityUrn}
                                \cup {[urn |-> mcpw.entityUrn, mcpw |-> mcpw]}]

\* monkey_patch_get_latest_timeseries_value: the aspect of the proposal held
\* for the urn, None when there is none, after the three assertions
monkey_patch_get_latest_timeseries_value(mcps, entity_urn, aspect_name, aspect_type, filter_criteria_map) ==
    IF aspect_name # "datahubIngestionRunSummary" \/ aspect_type # "DatahubIngestionRunSummaryClass"
          \/ filter_criteria_map # [pipelineName |-> pipeline_name, platformInstanceId |-> platform_instance_id]
    THEN [raised |-> "AssertionError", ret |-> None]
    ELSE IF Emitted(mcps, entity_urn) = {}
    THEN [raised |-> "none", ret |-> None]
    ELSE [raised |-> "none", ret |-> (CHOOSE m \in Emitted(mcps, entity_urn) : TRUE).aspect]

\* provider.commit(): one UPSERT proposal per job of state_to_commit (the
\* items of the dict, in order), from the i-th on; then the flag
RECURSIVE commit(_, _, _, _)
commit(mcps, state_to_commit, i, sent) ==
    IF i > Len(state_to_commit)
    THEN [raised |-> "none", mcps_emitted |-> mcps, committed |-> TRUE, sent |-> sent]
    ELSE LET state == state_to_commit[i].state
             mcpw == MetadataChangeProposalWrapper("dataJob", "UPSERT",
                        get_data_job_urn(state.obj.pipelineName, state.obj.platformInstanceId,
                                         state_to_commit[i].job_name),
                        None, None, Str("datahubIngestionRunSummary"), state, None).obj
             r == monkey_patch_emit_mcp(mcps, mcpw)
         IN  IF r.raised # "none"
             THEN [raised |-> r.raised, mcps_emitted |-> r.mcps_emitted, committed |-> FALSE, sent |-> sent]
             ELSE commit(r.mcps_emitted, state_to_commit, i + 1, Append(sent, mcpw))

\* provider.get_last_state(state_key): the latest state of every job of the
\* key that has one, as job name and state pairs, from the i-th job on
RECURSIVE get_last_state(_, _, _, _)
get_last_state(mcps, state_key, i, found) ==
    IF i > Len(state_key.job_names)
    THEN [raised |-> "none", ret |-> found]
    ELSE LET r == monkey_patch_get_latest_timeseries_value(mcps,
                        get_data_job_urn(state_key.pipeline_name, state_key.platform_instance_id,
                                         state_key.job_names[i]),
                        "datahubIngestionRunSummary", "DatahubIngestionRunSummaryClass",
                        [pipelineName |-> state_key.pipeline_name,
                         platformInstanceId |-> state_key.platform_instance_id])
         IN  IF r.raised # "none" THEN [raised |-> r.raised, ret |-> None]
             ELSE get_last_state(mcps, state_key, i + 1,
                        IF r.ret = None THEN found
                        ELSE found \cup {[job_name |-> state_key.job_names[i], state |-> r.ret]})

-----------------------------------------------------------------------------
(* Inputs *)

UrnA == make_dataset_urn_with_platform_instance("pulsar", "persistent://t/n/a", Str("inst"), "PROD")

\* a LegacyFullSnapshot event with the given aspect list
MetadataChangeEvent(aspects, valid) ==
    [t |-> "DictWrapper", cls |-> "MetadataChangeEvent", len |-> 4, valid |-> valid,
     proposedSnapshot |-> [urn |-> UrnA, aspects |-> aspects],
     systemMetadata |-> None]

WrapperInputs ==
    {MetadataChangeProposalWrapper("dataset", "UPSERT", UrnA, None, None, Str("status"), StatusClass(FALSE), None).obj,
     MetadataChangeProposalWrapper("dataset", "UPSERT", None, None, None, Str("status"), StatusClass(FALSE), None).obj}

EventInputs ==
    {MetadataChangeEvent(<<Aspect("StatusClass", TRUE)>>, TRUE), MetadataChangeEvent(<<>>, TRUE)}

RawInputs ==
    {make_mcp(w).ret : w \in WrapperInputs}

StatefulConfigs ==
    {None} \cup [enabled : BOOLEAN, remove_stale_metadata : BOOLEAN]

CheckpointInputs ==
    {None, Checkpoint(None)}
        \cup {Checkpoint(KafkaCheckpointState(S)) : S \in SUBSET Urns}

-----------------------------------------------------------------------------
(* Idle components *)

McpIdle ==
    /\ mcp = None /\ mcp_args = None
    /\ ret = FALSE /\ first_ret = FALSE /\ calls = 0

WuIdle == wu = None /\ wu_args = None

PulsarIdle ==
    /\ stateful_ingestion = None /\ platform_instance = None
    /\ last_checkpoint = None /\ cur_checkpoint = None
    /\ pc = "idle" /\ tenants_scanned = 0 /\ namespaces_scanned = 0
    /\ topics = {} /\ topic = None /\ extracting = None /\ listed = {}
    /\ emitted = <<>> /\ differ = [ran |-> FALSE, out |-> <<>>]

ExtractorIdle ==
    /\ units = <<>> /\ run_id = "none" /\ now = 0
    /\ envelopes = <<>> /\ extractions = <<>>

EmitIdle == dpi = None /\ emission = None

JsonIdle ==
    /\ json_in = None /\ json_wire = None /\ json_back = None /\ json_pc = "idle"

ProviderIdle ==
    /\ mcps_emitted = {} /\ committed = FALSE
    /\ commit_log = <<>> /\ last_state = None

StoreIdle == checks = <<>> /\ ProviderIdle /\ request = None /\ latest_value = None

RestIdle == ExtractorIdle /\ EmitIdle /\ JsonIdle /\ StoreIdle

-----------------------------------------------------------------------------
(* MetadataChangeProposalWrapper: construction and validate() *)

InitMcp == McpIdle /\ WuIdle /\ PulsarIdle /\ RestIdle /\ raised = "none"

Construct ==
    /\ mcp_args = None
    /\ \E entityUrn \in {None, UrnA}, entityKeyAspect \in {None, Aspect("DatasetKeyClass", TRUE), Aspect("DatasetKeyClass", FALSE)},
          aspect \in {None, Aspect("DatasetPropertiesClass", TRUE), Aspect("DatasetPropertiesClass", FALSE)}, changeType \in {"UPSERT", "DELETE", "NOT_A_CHANGE_TYPE"},
          aspectName \in {None, Str("datasetProperties")},
          systemMetadata \in {None, SystemMetadata(1, "run-1")} :
        LET r == MetadataChangeProposalWrapper("dataset", changeType, entityUrn,
                    entityKeyAspect, None, aspectName, aspect, systemMetadata)
        IN  /\ mcp_args' = [entityType |-> "dataset", changeType |-> changeType,
                            entityUrn |-> entityUrn, entityKeyAspect |-> entityKeyAspect,
                            auditHeader |-> None, aspectName |-> aspectName,
                            aspect |-> aspect, systemMetadata |-> systemMetadata]
            /\ mcp' = r.obj
            /\ raised' = r.raised
    /\ UNCHANGED <<ret, first_ret, calls>>
    /\ UNCHANGED wuVars /\ UNCHANGED pulsarVars /\ UNCHANGED restVars

Validate ==
    /\ mcp # None
    /\ calls < MaxCalls
    /\ LET r == validate(mcp)
       IN  /\ mcp' = r.self
           /\ ret' = r.ret
           /\ first_ret' = IF calls = 0 THEN r.ret ELSE first_ret
    /\ calls' = calls + 1
    /\ UNCHANGED <<mcp_args, raised>>
    /\ UNCHANGED wuVars /\ UNCHANGED pulsarVars /\ UNCHANGED restVars

NextMcp == Construct \/ Validate

SpecMcp == InitMcp /\ [][NextMcp]_vars

-----------------------------------------------------------------------------
(* MetadataWorkUnit: construction *)

InitWu == McpIdle /\ WuIdle /\ PulsarIdle /\ RestIdle /\ raised = "none"

ConstructWorkUnit ==
    /\ wu_args = None
    /\ \E id \in {"wu-1", "wu-2"}, mce \in {None} \cup EventInputs,
          mcp_ \in {None} \cup WrapperInputs, mcp_raw \in {None} \cup RawInputs,
          treat_errors_as_warnings \in BOOLEAN :
        LET r == MetadataWorkUnit(id, mce, mcp_, mcp_raw, treat_errors_as_warnings)
        IN  /\ wu_args' = [id |-> id, mce |-> mce, mcp |-> mcp_, mcp_raw |-> mcp_raw,
                           treat_errors_as_warnings |-> treat_errors_as_warnings]
            /\ wu' = r.obj
            /\ raised' = r.raised
    /\ UNCHANGED mcpVars /\ UNCHANGED pulsarVars /\ UNCHANGED restVars

NextWu == ConstructWorkUnit

SpecWu == InitWu /\ [][NextWu]_vars

-----------------------------------------------------------------------------
(* The stale-entity differ, invoked on its own *)

InitDiffer ==
    /\ McpIdle /\ WuIdle /\ RestIdle /\ raised = "none"
    /\ stateful_ingestion \in StatefulConfigs
    /\ platform_instance = Str("inst")
    /\ last_checkpoint \in CheckpointInputs
    /\ cur_checkpoint \in CheckpointInputs
    /\ pc = "idle" /\ tenants_scanned = 0 /\ namespaces_scanned = 0
    /\ topics = {} /\ topic = None /\ extracting = None /\ listed = {}
    /\ emitted = <<>> /\ differ = [ran |-> FALSE, out |-> <<>>]

CallDiffer ==
    /\ ~differ.ran
    /\ \E order \in Orders(LastUrns) :
        differ' = [ran |-> TRUE, out |-> gen_removed_entity_workunits(order)]
    /\ UNCHANGED <<stateful_ingestion, platform_instance, last_checkpoint,
                   cur_checkpoint, pc, tenants_scanned, namespaces_scanned,
                   topics, topic, extracting, listed, emitted>>
    /\ UNCHANGED mcpVars /\ UNCHANGED wuVars /\ UNCHANGED raised /\ UNCHANGED restVars

NextDiffer == CallDiffer

SpecDiffer == InitDiffer /\ [][NextDiffer]_vars

-----------------------------------------------------------------------------
(* PulsarSource.get_workunits: one ingestion run *)

\* The constructor has accepted the configuration (stateful ingestion needs a
\* platform instance); the current checkpoint, when there is one, starts empty;
\* a run without stateful ingestion consults no checkpoint.
InitPulsar ==
    /\ McpIdle /\ WuIdle /\ RestIdle /\ raised = "none"
    /\ stateful_ingestion \in StatefulConfigs
    /\ platform_instance \in {None, Str("inst")}
    /\ ~(is_stateful_ingestion_configured /\ platform_instance = None)
    /\ last_checkpoint \in {None, Checkpoint(None)}
            \cup {Checkpoint(KafkaCheckpointState(S)) :
                    S \in SUBSET {u \in Urns : u.name # "persistent://t/m/gone"}}
    /\ cur_checkpoint \in {None, Checkpoint(KafkaCheckpointState({}))}
    /\ ~is_stateful_ingestion_configured => last_checkpoint = None /\ cur_checkpoint = None
    /\ pc = "tenants" /\ tenants_scanned = 0 /\ namespaces_scanned = 0
    /\ topics = {} /\ topic = None /\ extracting = None /\ listed = {}
    /\ emitted = <<>> /\ differ = [ran |-> FALSE, out |-> <<>>]

\* for tenant in self.tenants: the next tenant, allowed by tenant_patterns or not
Tenant ==
    /\ pc = "tenants"
    /\ tenants_scanned < MaxTenants
    /\ tenants_scanned' = tenants_scanned + 1
    /\ \E allowed \in BOOLEAN :
        pc' = IF allowed THEN "namespaces" ELSE "tenants"
    /\ UNCHANGED <<stateful_ingestion, platform_instance, last_checkpoint,
                   cur_checkpoint, namespaces_scanned, topics, topic, extracting, listed,
                   emitted, differ>>
    /\ UNCHANGED mcpVars /\ UNCHANGED wuVars /\ UNCHANGED raised /\ UNCHANGED restVars

\* self.tenants is exhausted: the generator returns
TenantsDone ==
    /\ pc = "tenants"
    /\ pc' = "done"
    /\ UNCHANGED <<stateful_ingestion, platform_instance, last_checkpoint,
                   cur_checkpoint, tenants_scanned, namespaces_scanned, topics,
                   topic, extracting, listed, emitted, differ>>
    /\ UNCHANGED mcpVars /\ UNCHANGED wuVars /\ UNCHANGED raised /\ UNCHANGED restVars

\* for namespace in namespaces: the next namespace; when namespace_patterns
\* allows it, the four admin urls list its topics
Namespace ==
    /\ pc = "namespaces"
    /\ namespaces_scanned < MaxNamespaces
    /\ namespaces_scanned' = namespaces_scanned + 1
    /\ \E allowed \in BOOLEAN, pulsar_topics \in SUBSET (Topics \ listed) :
        IF allowed
        THEN /\ topics' = pulsar_topics
             /\ listed' = listed \cup pulsar_topics
             /\ pc' = "topics"
        ELSE /\ pulsar_topics = {}
             /\ UNCHANGED <<topics, listed, pc>>
    /\ UNCHANGED <<stateful_ingestion, platform_instance, last_checkpoint,
                   cur_checkpoint, tenants_scanned, topic, extracting, emitted, differ>>
    /\ UNCHANGED mcpVars /\ UNCHANGED wuVars /\ UNCHANGED raised /\ UNCHANGED restVars

\* the tenant's namespaces are exhausted
NamespacesDone ==
    /\ pc = "namespaces"
    /\ pc' = "tenants"
    /\ UNCHANGED <<stateful_ingestion, platform_instance, last_checkpoint,
                   cur_checkpoint, tenants_scanned, namespaces_scanned, topics,
                   topic, extracting, listed, emitted, differ>>
    /\ UNCHANGED mcpVars /\ UNCHANGED wuVars /\ UNCHANGED raised /\ UNCHANGED restVars

\* the topic loop registering a topic in the checkpoint on entering
\* _extract_record, before any of its work units has been yielded
TopicRegisteringFirst ==
    /\ pc = "topics"
    /\ \E name \in topics, allowed \in BOOLEAN, has_schema \in BOOLEAN,
          domain_urn \in {None, Str("urn:li:domain:sales")} :
        /\ topics' = topics \ {name}
        /\ IF allowed
           THEN /\ extracting' = [out |-> _extract_record(name, has_schema, domain_urn), yielded |-> 0]
                /\ topic' = Str(name)
                /\ pc' = "add"
                /\ cur_checkpoint' = IF is_stateful_ingestion_configured
                                     THEN _add_topic_to_checkpoint(name)
                                     ELSE cur_checkpoint
           ELSE /\ has_schema = FALSE /\ domain_urn = None
                /\ UNCHANGED <<extracting, topic, pc, cur_checkpoint>>
    /\ UNCHANGED <<stateful_ingestion, platform_instance, last_checkpoint,
                   tenants_scanned, namespaces_scanned, listed,
                   emitted, differ>>
    /\ UNCHANGED mcpVars /\ UNCHANGED wuVars /\ UNCHANGED raised /\ UNCHANGED restVars

\* for topic, is_partitioned in topics.items(): the next topic; when
\* topic_patterns allows it, the generator enters _extract_record, which has
\* the topic's work units to yield
Topic ==
    /\ pc = "topics"
    /\ \E name \in topics, allowed \in BOOLEAN, has_schema \in BOOLEAN,
          domain_urn \in {None, Str("urn:li:domain:sales")} :
        /\ topics' = topics \ {name}
        /\ IF allowed
           THEN /\ extracting' = [out |-> _extract_record(name, has_schema, domain_urn), yielded |-> 0]
                /\ topic' = Str(name)
                /\ pc' = "add"
           ELSE /\ has_schema = FALSE /\ domain_urn = None
                /\ UNCHANGED <<extracting, topic, pc>>
    /\ UNCHANGED <<stateful_ingestion, platform_instance, last_checkpoint,
                   cur_checkpoint, tenants_scanned, namespaces_scanned, listed,
                   emitted, differ>>
    /\ UNCHANGED mcpVars /\ UNCHANGED wuVars /\ UNCHANGED raised /\ UNCHANGED restVars

\* yield from self._extract_record(topic, is_partitioned): the consumer
\* takes the next work unit of the topic; the generator stays suspended at
\* that yield until it is asked for another
Yield ==
    /\ pc = "add"
    /\ extracting.yielded < Len(extracting.out)
    /\ emitted' = Append(emitted, extracting.out[extracting.yielded + 1])
    /\ extracting' = [extracting EXCEPT !.yielded = @ + 1]
    /\ UNCHANGED <<stateful_ingestion, platform_instance, last_checkpoint,
                   cur_checkpoint, pc, tenants_scanned, namespaces_scanned,
                   topics, topic, listed, differ>>
    /\ UNCHANGED mcpVars /\ UNCHANGED wuVars /\ UNCHANGED raised /\ UNCHANGED restVars

\* resumed after the topic's last work unit: _add_topic_to_checkpoint when
\* stateful ingestion is configured
AddTopic ==
    /\ pc = "add"
    /\ extracting.yielded = Len(extracting.out)
    /\ cur_checkpoint' = IF is_stateful_ingestion_configured
                         THEN _add_topic_to_checkpoint(topic.s)
                         ELSE cur_checkpoint
    /\ topic' = None
    /\ extracting' = None
    /\ pc' = "topics"
    /\ UNCHANGED <<stateful_ingestion, platform_instance, last_checkpoint,
                   tenants_scanned, namespaces_scanned, topics, listed, emitted,
                   differ>>
    /\ UNCHANGED mcpVars /\ UNCHANGED wuVars /\ UNCHANGED raised /\ UNCHANGED restVars

\* the namespace's topics are exhausted: gen_removed_entity_workunits when
\* stateful ingestion is configured, then on to the next namespace
TopicsDone ==
    /\ pc = "topics"
    /\ topics = {}
    /\ IF is_stateful_ingestion_configured
       THEN \E order \in Orders(LastUrns) :
              /\ differ' = [ran |-> TRUE, out |-> gen_removed_entity_workunits(order)]
              /\ emitted' = emitted \o gen_removed_entity_workunits(order)
       ELSE UNCHANGED <<emitted, differ>>
    /\ pc' = "namespaces"
    /\ UNCHANGED <<stateful_ingestion, platform_instance, last_checkpoint,
                   cur_checkpoint, tenants_scanned, namespaces_scanned, topics,
                   topic, extracting, listed>>
    /\ UNCHANGED mcpVars /\ UNCHANGED wuVars /\ UNCHANGED raised /\ UNCHANGED restVars

NextPulsar ==
    \/ Tenant
    \/ TenantsDone
    \/ Namespace
    \/ NamespacesDone
    \/ Topic
    \/ Yield
    \/ AddTopic
    \/ TopicsDone

SpecPulsar == InitPulsar /\ [][NextPulsar]_vars

-----------------------------------------------------------------------------
(* PulsarSource.is_checkpointing_enabled, asked about job ids *)

\* a constructed source (stateful ingestion needs a platform instance) that
\* has not started a run
InitCheckpointing ==
    /\ McpIdle /\ WuIdle /\ ExtractorIdle /\ EmitIdle /\ JsonIdle
    /\ ProviderIdle /\ request = None /\ latest_value = None /\ raised = "none"
    /\ stateful_ingestion \in StatefulConfigs
    /\ platform_instance \in {None, Str("inst")}
    /\ ~(is_stateful_ingestion_configured /\ platform_instance = None)
    /\ last_checkpoint = None /\ cur_checkpoint = None
    /\ pc = "idle" /\ tenants_scanned = 0 /\ namespaces_scanned = 0
    /\ topics = {} /\ topic = None /\ extracting = None /\ listed = {}
    /\ emitted = <<>> /\ differ = [ran |-> FALSE, out |-> <<>>]
    /\ checks = <<>>

\* one is_checkpointing_enabled(job_id) call
IsCheckpointingEnabled ==
    /\ Len(checks) < MaxChecks
    /\ \E job_id \in {get_default_ingestion_job_id, Str("ingest_from_kafka_source"), Str("")} :
        checks' = Append(checks, [job_id |-> job_id, ret |-> is_checkpointing_enabled(job_id)])
    /\ UNCHANGED mcpVars /\ UNCHANGED wuVars /\ UNCHANGED pulsarVars /\ UNCHANGED raised
    /\ UNCHANGED extractorVars /\ UNCHANGED emitVars /\ UNCHANGED jsonVars
    /\ UNCHANGED providerVars /\ UNCHANGED <<request, latest_value>>

NextCheckpointing == IsCheckpointingEnabled

SpecCheckpointing == InitCheckpointing /\ [][NextCheckpointing]_vars

-----------------------------------------------------------------------------
(* DataHubGraph.get_latest_timeseries_value against the server's answers *)

\* what the session's post comes back with: no connection, a 200 with or
\* without a JSON body, a not-found or a server error with or without one.
\* The text in the value entry of an aspect is the JSON text of a job state, a
\* text that is no JSON, or the empty str.
ResponseInputs ==
    LET AspectTexts ==
            {[t |-> "json", obj |-> [pipelineName |-> "p1", platformInstanceId |-> i, runId |-> "run-1", runStatus |-> s]] :
                i \in {"i1"}, s \in {"COMPLETED", "SKIPPED"}}
            \cup {[t |-> "text"], [t |-> "empty"]}
        \* one element of the values list
        ValueInputs ==
            {[t |-> "dict", aspect |-> Absent], [t |-> "dict", aspect |-> [t |-> "dict", value |-> Absent]]}
            \cup {[t |-> "dict", aspect |-> [t |-> "dict", value |-> x]] : x \in AspectTexts}
        \* the bodies a 200 answer may carry
        BodyInputs ==
            {[t |-> "dict", value |-> Absent], [t |-> "dict", value |-> None],
             [t |-> "dict", value |-> [t |-> "dict", values |-> Absent]],
             [t |-> "dict", value |-> [t |-> "dict", values |-> JList(<<>>)]]}
            \cup {[t |-> "dict", value |-> [t |-> "dict", values |-> JList(<<v>>)]] : v \in ValueInputs}
            \cup {[t |-> "dict", value |-> [t |-> "dict", values |-> JList(<<v, v>>)]] :
                    v \in {[t |-> "dict", aspect |-> Absent]}}
    IN  {[t |-> "unreachable"]}
        \cup {[t |-> "Response", status_code |-> 200, json |-> b] : b \in BodyInputs \cup {[t |-> "notjson"]}}
        \cup {[t |-> "Response", status_code |-> c, json |-> b] :
                c \in {404, 500}, b \in {[t |-> "dict", message |-> "error"], [t |-> "notjson"]}}

\* the entity urn is the urn of the dataJob entity a job's state is attached
\* to, or a str that is no urn
InitGraph ==
    /\ McpIdle /\ WuIdle /\ PulsarIdle /\ ExtractorIdle /\ EmitIdle /\ JsonIdle
    /\ checks = <<>> /\ ProviderIdle /\ raised = "none"
    /\ request \in [entity_urn : {<<"urn", "li", "dataJob", "p1", "job1">>,
                                   <<"urn", "li", "dataJob", "p1", "job2">>, <<"job1">>},
                    filter_criteria_map : {[pipelineName |-> "p1", platformInstanceId |-> i] : i \in {"i1", "i2"}},
                    response : ResponseInputs]
    /\ latest_value = None

\* graph.get_latest_timeseries_value(entity_urn, "datahubIngestionRunSummary",
\* DatahubIngestionRunSummaryClass, filter_criteria_map)
GetLatestTimeseriesValue ==
    /\ latest_value = None
    /\ latest_value' = get_latest_timeseries_value(request.entity_urn, "datahubIngestionRunSummary",
                            "DatahubIngestionRunSummaryClass", request.filter_criteria_map, request.response)
    /\ UNCHANGED request
    /\ UNCHANGED mcpVars /\ UNCHANGED wuVars /\ UNCHANGED pulsarVars /\ UNCHANGED raised
    /\ UNCHANGED extractorVars /\ UNCHANGED emitVars /\ UNCHANGED jsonVars
    /\ UNCHANGED checks /\ UNCHANGED providerVars

NextGraph == GetLatestTimeseriesValue

SpecGraph == InitGraph /\ [][NextGraph]_vars

-----------------------------------------------------------------------------
(* The reporting provider committing job states and loading them back *)

run_statuses == {"COMPLETED", "SKIPPED"}

\* the job reports a pipeline may set as state_to_commit: for one job or for
\* both
StateToCommitInputs ==
    {<<[job_name |-> j, state |-> ReportingJobStateType(pipeline_name, platform_instance_id, "test_run", s)]>> :
        j \in SeqToSet(job_names), s \in run_statuses}
    \cup {<<[job_name |-> job_names[1], state |-> ReportingJobStateType(pipeline_name, platform_instance_id, "test_run", s1)],
            [job_name |-> job_names[2], state |-> ReportingJobStateType(pipeline_name, platform_instance_id, "test_run", s2)]>> :
            s1 \in run_statuses, s2 \in run_statuses}

\* the keys a pipeline may load: one job or both
JobStateKeyInputs ==
    {JobStateKey(pipeline_name, platform_instance_id, js) :
        js \in {<<"job1">>, <<"job2">>, job_names}}

\* setUp: a graph that holds nothing, a provider that has committed nothing
InitProvider ==
    /\ McpIdle /\ WuIdle /\ PulsarIdle /\ ExtractorIdle /\ EmitIdle /\ JsonIdle
    /\ checks = <<>> /\ request = None /\ latest_value = None /\ raised = "none"
    /\ mcps_emitted = {}
    /\ committed = FALSE
    /\ commit_log = <<>>
    /\ last_state = None

\* provider.state_to_commit = job_reports; provider.commit()
Commit ==
    /\ Len(commit_log) < MaxCommits
    /\ \E state_to_commit \in StateToCommitInputs :
        LET r == commit(mcps_emitted, state_to_commit, 1, <<>>)
        IN  /\ mcps_emitted' = r.mcps_emitted
            /\ committed' = r.committed
            /\ commit_log' = Append(commit_log,
                    [state_to_commit |-> state_to_commit, before |-> mcps_emitted,
                     after |-> r.mcps_emitted, raised |-> r.raised, sent |-> r.sent])
    /\ UNCHANGED last_state
    /\ UNCHANGED mcpVars /\ UNCHANGED wuVars /\ UNCHANGED pulsarVars /\ UNCHANGED raised
    /\ UNCHANGED extractorVars /\ UNCHANGED emitVars /\ UNCHANGED jsonVars
    /\ UNCHANGED <<checks, request, latest_value>>

\* provider.get_last_state(job_state_key), after at commits
GetLastState ==
    /\ \E state_key \in JobStateKeyInputs :
        LET r == get_last_state(mcps_emitted, state_key, 1, {})
        IN  last_state' = [state_key |-> state_key, at |-> Len(commit_log),
                           raised |-> r.raised, ret |-> r.ret]
    /\ UNCHANGED <<mcps_emitted, committed, commit_log>>
    /\ UNCHANGED mcpVars /\ UNCHANGED wuVars /\ UNCHANGED pulsarVars /\ UNCHANGED raised
    /\ UNCHANGED extractorVars /\ UNCHANGED emitVars /\ UNCHANGED jsonVars
    /\ UNCHANGED <<checks, request, latest_value>>

NextProvider == Commit \/ GetLastState

SpecProvider == InitProvider /\ [][NextProvider]_vars

-----------------------------------------------------------------------------
(* WorkUnitRecordExtractor.get_records over the work units of a source *)

\* a UsageStatsWorkUnit: the dataclass-generated __init__
UsageStatsWorkUnit(id, usageStats) ==
    [t |-> "UsageStatsWorkUnit", id |-> id, usageStats |-> usageStats]

\* the payloads a source may hand to MetadataWorkUnit: events with and without
\* aspects, wrappers and raw proposals that pass and fail validate(), and a
\* wrapper the source has already given a systemMetadata
\* the work units with the given id: every MetadataWorkUnit the constructor
\* accepts, usage statistics, and a WorkUnit subclass get_records does not know
WorkUnitInputs(id) ==
    {MetadataWorkUnit(id, m, None, None, FALSE).obj :
        m \in EventInputs \cup {MetadataChangeEvent(<<Aspect("StatusClass", FALSE)>>, FALSE)}}
        \cup {MetadataWorkUnit(id, None, m, None, tw).obj :
                m \in WrapperInputs \cup
                    {MetadataChangeProposalWrapper("dataset", "UPSERT", UrnA, None, None, Str("status"), StatusClass(FALSE), SystemMetadata(0, "source-run")).obj},
                tw \in BOOLEAN}
        \cup {MetadataWorkUnit(id, None, None, m, FALSE).obj :
                m \in RawInputs \cup
                    {make_mcp(MetadataChangeProposalWrapper("dataset", "NOT_A_CHANGE_TYPE", UrnA, None, None, Str("status"), StatusClass(FALSE), None).obj).ret}}
        \cup {UsageStatsWorkUnit(id, Aspect("UsageAggregationClass", valid)) : valid \in BOOLEAN}
        \cup {[t |-> "WorkUnit", id |-> id]}

WorkUnitId(i) == IF i = 1 THEN "wu-1" ELSE IF i = 2 THEN "wu-2" ELSE IF i = 3 THEN "wu-3" ELSE "wu-n"

InitExtractor ==
    /\ McpIdle /\ WuIdle /\ PulsarIdle /\ EmitIdle /\ JsonIdle /\ StoreIdle /\ raised = "none"
    /\ units \in {us \in [1..MaxUnits -> UNION {WorkUnitInputs(WorkUnitId(i)) : i \in 1..MaxUnits}] :
                    \A i \in 1..MaxUnits : us[i].id = WorkUnitId(i)}
    /\ run_id = "run-1"
    /\ now = 1
    /\ envelopes = <<>>
    /\ extractions = <<>>

\* one get_records(units[i]) call, iterated to its end by the caller; the
\* caller may come back to a work unit it has extracted before
GetRecords ==
    /\ Len(extractions) < MaxExtractions
    /\ \E i \in 1..MaxUnits :
        LET r == get_records(units[i], now, run_id)
        IN  /\ units' = [units EXCEPT ![i] = r.workunit]
            /\ envelopes' = envelopes \o r.out
            /\ extractions' = Append(extractions,
                    [unit |-> i, time |-> now, before |-> units[i],
                     after |-> r.workunit, raised |-> r.raised, out |-> r.out])
    /\ now' = now + 1
    /\ UNCHANGED run_id
    /\ UNCHANGED mcpVars /\ UNCHANGED wuVars /\ UNCHANGED pulsarVars /\ UNCHANGED raised
    /\ UNCHANGED emitVars /\ UNCHANGED jsonVars /\ UNCHANGED storeVars

NextExtractor == GetRecords

SpecExtractor == InitExtractor /\ [][NextExtractor]_vars

-----------------------------------------------------------------------------
(* DataProcessInstance: one emission through an emitter handle *)

FlowUrn == DataFlowUrn("airflow", "flow-1", "PROD")
JobUrn == DataJobUrn(FlowUrn, "job-1")
DatasetIn == make_dataset_urn_with_platform_instance("pulsar", "persistent://t/n/a", None, "PROD")
DatasetOut == make_dataset_urn_with_platform_instance("pulsar", "persistent://t/m/b", None, "PROD")

\* the instances a caller may hold: built by the constructor with any
\* template urn (a dataset urn is neither a flow nor a job), or from a DataJob
\* or DataFlow
DataProcessInstanceInputs ==
    {DataProcessInstance("run-1", template_urn, inlets, outlets, upstream_urns) :
        template_urn \in {None, FlowUrn, JobUrn, DatasetIn},
        inlets \in {<<>>, <<DatasetIn>>}, outlets \in {<<>>, <<DatasetOut>>},
        upstream_urns \in {<<>>, <<DataProcessInstanceUrn("run-0")>>}}
    \cup {from_datajob(DataJob("job-1", <<>>, FlowUrn, <<DatasetIn>>, <<DatasetOut>>), "run-1", ci, co) :
            ci \in BOOLEAN, co \in BOOLEAN}
    \cup {from_dataflow(DataFlow("PROD", "airflow", "flow-1"), "run-1")}

\* the handles: the two emitters of the annotation, DataHubGraph (a subclass of
\* DatahubRestEmitter, ingestion/graph/client.py) and a subclass of
\* DatahubKafkaEmitter
EmitterInputs ==
    {[cls |-> "DatahubRestEmitter", capability |-> "sync"],
     [cls |-> "DataHubGraph", capability |-> "sync"],
     [cls |-> "DatahubKafkaEmitter", capability |-> "async"],
     [cls |-> "AuditedKafkaEmitter", capability |-> "async"]}

CallbackInputs == {None, [t |-> "function", name |-> "on_delivery"]}

InitEmit ==
    /\ McpIdle /\ WuIdle /\ PulsarIdle /\ ExtractorIdle /\ JsonIdle /\ StoreIdle /\ raised = "none"
    /\ dpi \in DataProcessInstanceInputs
    /\ emission = None

\* the remote may reject any one of the writes of a synchronous handle
FailAtInputs(emitter, n) == IF emitter.capability = "sync" THEN 0..n ELSE {0}

EmitProcessStart ==
    /\ emission = None
    /\ \E emitter \in EmitterInputs, callback \in CallbackInputs, emit_template \in BOOLEAN :
        \E fail_at \in FailAtInputs(emitter, Len(emit_process_start(dpi, emitter, 1000, emit_template, callback, 0).sent)) :
            LET r == emit_process_start(dpi, emitter, 1000, emit_template, callback, fail_at)
            IN  emission' = [op |-> "emit_process_start", emitter |-> emitter,
                             callback |-> callback, emit_template |-> emit_template,
                             fail_at |-> fail_at, raised |-> r.raised, sent |-> r.sent]
    /\ UNCHANGED dpi
    /\ UNCHANGED mcpVars /\ UNCHANGED wuVars /\ UNCHANGED pulsarVars /\ UNCHANGED raised
    /\ UNCHANGED extractorVars /\ UNCHANGED jsonVars /\ UNCHANGED storeVars

EmitProcessEnd ==
    /\ emission = None
    /\ \E emitter \in EmitterInputs, callback \in CallbackInputs :
        \E fail_at \in FailAtInputs(emitter, 1) :
            LET r == emit_process_end(dpi, emitter, 2000, callback, fail_at)
            IN  emission' = [op |-> "emit_process_end", emitter |-> emitter,
                             callback |-> callback, emit_template |-> FALSE,
                             fail_at |-> fail_at, raised |-> r.raised, sent |-> r.sent]
    /\ UNCHANGED dpi
    /\ UNCHANGED mcpVars /\ UNCHANGED wuVars /\ UNCHANGED pulsarVars /\ UNCHANGED raised
    /\ UNCHANGED extractorVars /\ UNCHANGED jsonVars /\ UNCHANGED storeVars

Emit ==
    /\ emission = None
    /\ \E emitter \in EmitterInputs, callback \in CallbackInputs :
        \E fail_at \in FailAtInputs(emitter, Len(emit(dpi, emitter, callback, 0).sent)) :
            LET r == emit(dpi, emitter, callback, fail_at)
            IN  emission' = [op |-> "emit", emitter |-> emitter,
                             callback |-> callback, emit_template |-> FALSE,
                             fail_at |-> fail_at, raised |-> r.raised, sent |-> r.sent]
    /\ UNCHANGED dpi
    /\ UNCHANGED mcpVars /\ UNCHANGED wuVars /\ UNCHANGED pulsarVars /\ UNCHANGED raised
    /\ UNCHANGED extractorVars /\ UNCHANGED jsonVars /\ UNCHANGED storeVars

NextEmit == EmitProcessStart \/ EmitProcessEnd \/ Emit

SpecEmit == InitEmit /\ [][NextEmit]_vars

-----------------------------------------------------------------------------
(* pre_json_transform and post_json_transform over object forms *)

\* keys with the internal prefix, with the wire prefix only, with neither, and
\* the discriminator key
JsonKeys ==
    << <<"com", "linkedin", "pegasus2avro", "A">>, <<"com", "linkedin", "A">>,
       <<"f">>, FieldDiscriminator >>

\* the object forms of exactly n nodes (a node is a dict, a list or a leaf);
\* JsonSeqs(n): the lists whose elements have n nodes in all; JsonMaps(i, n):
\* the mappings over the keys from the i-th on whose values have n nodes in all
RECURSIVE JsonOfSize(_), JsonSeqs(_), JsonMaps(_, _)
JsonOfSize(n) ==
    IF n < 1 THEN {}
    ELSE (IF n = 1 THEN {JStr(<<"f">>), JBytes(<<"b">>), None} ELSE {})
            \cup {JList(s) : s \in JsonSeqs(n - 1)}
            \cup {JDict(m) : m \in JsonMaps(1, n - 1)}

JsonSeqs(n) ==
    IF n = 0 THEN {<<>>}
    ELSE UNION {{<<v>> \o rest : v \in JsonOfSize(k), rest \in JsonSeqs(n - k)} : k \in 1..n}

JsonMaps(i, n) ==
    IF i > Len(JsonKeys) THEN (IF n = 0 THEN {<<>>} ELSE {})
    ELSE JsonMaps(i + 1, n)
            \cup UNION {{(JsonKeys[i] :> v) @@ rest : v \in JsonOfSize(k), rest \in JsonMaps(i + 1, n - k)} : k \in 1..n}

JsonInputs == UNION {JsonOfSize(n) : n \in 1..MaxJsonSize}

InitJson ==
    /\ McpIdle /\ WuIdle /\ PulsarIdle /\ ExtractorIdle /\ EmitIdle /\ StoreIdle /\ raised = "none"
    /\ json_in \in JsonInputs
    /\ json_wire = None
    /\ json_back = None
    /\ json_pc = "in"

\* toWire
PreJsonTransform ==
    /\ json_pc = "in"
    /\ json_wire' = pre_json_transform(json_in)
    /\ json_pc' = "wire"
    /\ UNCHANGED <<json_in, json_back>>
    /\ UNCHANGED mcpVars /\ UNCHANGED wuVars /\ UNCHANGED pulsarVars /\ UNCHANGED raised
    /\ UNCHANGED extractorVars /\ UNCHANGED emitVars /\ UNCHANGED storeVars

\* fromWire, on what toWire returned
PostJsonTransform ==
    /\ json_pc = "wire"
    /\ json_wire.t # "raise"
    /\ json_back' = post_json_transform(json_wire)
    /\ json_pc' = "back"
    /\ UNCHANGED <<json_in, json_wire>>
    /\ UNCHANGED mcpVars /\ UNCHANGED wuVars /\ UNCHANGED pulsarVars /\ UNCHANGED raised
    /\ UNCHANGED extractorVars /\ UNCHANGED emitVars /\ UNCHANGED storeVars

NextJson == PreJsonTransform \/ PostJsonTransform

SpecJson == InitJson /\ [][NextJson]_vars

-----------------------------------------------------------------------------
(* Properties of the stale-entity differ *)

\* the preconditions of the differ
DifferPreconditions ==
    /\ stateful_ingestion # None
    /\ stateful_ingestion.remove_stale_metadata
    /\ last_checkpoint # None /\ last_checkpoint.state # None
    /\ cur_checkpoint # None /\ cur_checkpoint.state # None

IsSoftDelete(w) ==
    /\ w.metadata.t = "MetadataChangeProposalWrapper"
    /\ w.metadata.aspectName = Str("status")
    /\ w.metadata.aspect.removed

\* the number of soft-delete work units for urn u in a sequence of work units
SoftDeletes(ws, u) ==
    Cardinality({i \in 1..Len(ws) : IsSoftDelete(ws[i]) /\ ws[i].metadata.entityUrn = u})

UrnB == make_dataset_urn_with_platform_instance("pulsar", "persistent://t/m/b", Str("inst"), "PROD")
UrnC == make_dataset_urn_with_platform_instance("pulsar", "persistent://t/n/gone", Str("inst"), "PROD")
UrnD == make_dataset_urn_with_platform_instance("pulsar", "persistent://t/m/gone", Str("inst"), "PROD")

\* C1: one invocation of the differ with all preconditions met yields exactly
\* one soft-delete work unit for every urn of the previous state that is not
\* in the current state, and no other work unit.
C1_DifferYieldsSetDifference ==
    (differ.ran /\ DifferPreconditions) =>
        /\ \A i \in 1..Len(differ.out) : IsSoftDelete(differ.out[i])
        /\ \A u \in Urns :
            SoftDeletes(differ.out, u) =
                IF u \in last_checkpoint.state.urns /\ u \notin cur_checkpoint.state.urns
                THEN 1 ELSE 0
        /\ \A i \in 1..Len(differ.out) : differ.out[i].metadata.entityUrn \in Urns

\* previous {A, B, C}, current {B, C, D}: one work unit, for A
C1_Witness ==
    /\ differ.ran /\ DifferPreconditions
    /\ last_checkpoint.state.urns = {UrnA, UrnB, UrnC}
    /\ cur_checkpoint.state.urns = {UrnB, UrnC, UrnD}
    /\ Len(differ.out) = 1
    /\ differ.out[1].metadata.entityUrn = UrnA

\* the urns the run has registered in its checkpoint state so far
Registered ==
    IF cur_checkpoint # None /\ cur_checkpoint.state # None
    THEN cur_checkpoint.state.urns ELSE {}

\* C2: at the end of a run with stateful diffing enabled, every urn of the
\* previous checkpoint that the run did not observe has received exactly one
\* soft-delete work unit.
C2_ExactlyOneSoftDeletePerRun ==
    (pc = "done" /\ is_stateful_ingestion_configured /\ DifferPreconditions) =>
        \A u \in last_checkpoint.state.urns \ Registered :
            SoftDeletes(emitted, u) = 1

\* C3: an urn the run registers in its checkpoint state never receives a
\* soft-delete work unit in that run.
C3_RegisteredNeverSoftDeleted ==
    \A u \in Registered : SoftDeletes(emitted, u) = 0

\* C4: the differ yields nothing when stale-metadata removal is not enabled,
\* or the previous checkpoint is missing or has no state, or the current
\* checkpoint is missing or has no state.
C4_DifferSilentWithoutPreconditions ==
    (differ.ran /\ ~DifferPreconditions) => differ.out = <<>>

\* removal switched off although the previous state holds urns the current lacks
C4_Witness ==
    /\ differ.ran
    /\ stateful_ingestion # None /\ ~stateful_ingestion.remove_stale_metadata
    /\ last_checkpoint # None /\ last_checkpoint.state # None
    /\ cur_checkpoint # None /\ cur_checkpoint.state # None
    /\ last_checkpoint.state.urns \ cur_checkpoint.state.urns # {}
    /\ differ.out = <<>>

\* C5: every work unit the differ yields in a run is a soft-delete: an UPSERT
\* of the status aspect with removed = true, addressed by the urn of a stale
\* entity and by no key aspect, and it passes validate().
C5_RetractionIsSoftDelete ==
    \A i \in 1..Len(differ.out) :
        LET p == differ.out[i].metadata
        IN  /\ p.t = "MetadataChangeProposalWrapper"
            /\ p.changeType = "UPSERT"
            /\ p.aspectName = Str("status")
            /\ p.aspect.cls = "StatusClass" /\ p.aspect.removed = TRUE
            /\ p.entityUrn \in LastUrns
            /\ p.entityUrn = differ.out[i].id.urn
            /\ p.entityKeyAspect = None
            /\ (p.entityUrn = None) # (p.entityKeyAspect = None)
            /\ validate(p).ret

\* a run has yielded a retraction
C5_Witness ==
    /\ pc = "done"
    /\ \E i \in 1..Len(emitted) :
        /\ IsSoftDelete(emitted[i])
        /\ emitted[i].metadata.entityUrn = UrnC

-----------------------------------------------------------------------------
(* Properties of MetadataChangeProposalWrapper *)

\* exactly one of entityUrn and entityKeyAspect is set
IdentityHolds(p) == (p.entityUrn = None) # (p.entityKeyAspect = None)

\* the generic-encoded proposal built from p passes its own validate()
GenericFormValid(p) == MetadataChangeProposalClass_validate(make_mcp(p).ret)

WrapperFields ==
    {"entityType", "changeType", "entityUrn", "entityKeyAspect", "auditHeader",
     "aspectName", "aspect", "systemMetadata"}

\* C6: validate() returns false for every proposal in which entityUrn and
\* entityKeyAspect are both set or both unset, whatever the other fields are.
C6_IdentityViolationFailsValidate ==
    (calls > 0 /\ ~IdentityHolds(mcp)) => ret = FALSE

\* both set, everything else in order: validate() has answered false
C6_Witness ==
    /\ calls > 0
    /\ mcp.entityUrn # None /\ mcp.entityKeyAspect # None
    /\ mcp.entityKeyAspect.valid
    /\ mcp.aspect # None /\ mcp.aspect.valid
    /\ mcp.changeType = "UPSERT"
    /\ ret = FALSE

\* C7: validate() returns false when a present key aspect or a present aspect
\* payload fails its own validate(), and when the generic-encoded proposal of
\* make_mcp() fails its validate(); with the identity invariant holding it
\* returns true in every other case.
C7_ValidateResult ==
    calls > 0 =>
        /\ (mcp.entityKeyAspect # None /\ ~mcp.entityKeyAspect.valid) => ret = FALSE
        /\ (mcp.aspect # None /\ ~mcp.aspect.valid) => ret = FALSE
        /\ ~GenericFormValid(mcp) => ret = FALSE
        /\ ( /\ IdentityHolds(mcp)
             /\ mcp.entityKeyAspect # None => mcp.entityKeyAspect.valid
             /\ mcp.aspect # None => mcp.aspect.valid
             /\ GenericFormValid(mcp) ) => ret = TRUE

\* addressed by urn alone, the aspect payload alone is invalid: false
C7_Witness ==
    /\ calls > 0
    /\ mcp.entityUrn # None /\ mcp.entityKeyAspect = None
    /\ mcp.aspect # None /\ ~mcp.aspect.valid
    /\ GenericFormValid(mcp)
    /\ ret = FALSE

\* C8: validate() leaves every field of the proposal as construction set it,
\* whatever it returns, and repeated calls return the same result.
C8_ValidateIsPure ==
    calls > 0 =>
        /\ \A f \in WrapperFields : mcp[f] = mcp_args[f]
        /\ ret = first_ret

\* validate() was called twice on a proposal that reached make_mcp()
C8_Witness ==
    /\ calls = 2
    /\ IdentityHolds(mcp)
    /\ mcp.aspect # None /\ mcp.aspect.valid
    /\ ret = TRUE

\* C9: constructing a proposal succeeds for every combination of set and unset
\* entityUrn, entityKeyAspect and aspect; an ill-formed proposal is reported
\* only by validate() returning false.
C9_ConstructionNeverFails ==
    mcp_args # None =>
        /\ raised = "none"
        /\ mcp # None
        /\ mcp.t = "MetadataChangeProposalWrapper"
        /\ (calls > 0 /\ ret = TRUE) => IdentityHolds(mcp_args)

\* both identity fields set: constructed, then refused by validate()
C9_Witness ==
    /\ mcp_args # None
    /\ mcp_args.entityUrn # None /\ mcp_args.entityKeyAspect # None
    /\ mcp # None /\ raised = "none"
    /\ calls > 0 /\ ret = FALSE

-----------------------------------------------------------------------------
(* Properties of MetadataWorkUnit *)

\* the payloads supplied to the constructor
Supplied(a) == {k \in {"mce", "mcp", "mcp_raw"} : a[k] # None}

\* C10: MetadataWorkUnit construction raises when zero, two or three of mce,
\* mcp and mcp_raw are supplied; with exactly one it succeeds, and the unit
\* holds that payload, the given id and the given treat_errors_as_warnings.
C10_OneOfThreePayloads ==
    wu_args # None =>
        IF Cardinality(Supplied(wu_args)) # 1
        THEN raised # "none" /\ wu = None
        ELSE /\ raised = "none"
             /\ wu # None
             /\ \A k \in Supplied(wu_args) : wu.metadata = wu_args[k]
             /\ wu.id = wu_args.id
             /\ wu.treat_errors_as_warnings = wu_args.treat_errors_as_warnings

\* a snapshot and a proposal supplied together: the constructor raised
C10_Witness ==
    /\ wu_args # None
    /\ Supplied(wu_args) = {"mce", "mcp"}
    /\ raised = "ValueError"
    /\ wu = None

-----------------------------------------------------------------------------
(* Properties of WorkUnitRecordExtractor *)

\* the work unit is one of the two kinds get_records knows
KnownWorkUnit(w) == w.t \in {"MetadataWorkUnit", "UsageStatsWorkUnit"}

\* the payload is a LegacyFullSnapshot event with an empty aspect list
EmptySnapshot(w) ==
    /\ w.t = "MetadataWorkUnit"
    /\ IsMetadataChangeEvent(w.metadata)
    /\ w.metadata.proposedSnapshot.aspects = <<>>

\* the answer of the payload's own validate()
PayloadValidates(w) ==
    IF w.t = "MetadataWorkUnit" THEN metadata_validate(w.metadata).ret
    ELSE w.usageStats.valid

\* the payload a work unit carries
Payload(w) == IF w.t = "MetadataWorkUnit" THEN w.metadata ELSE w.usageStats

\* a work unit without what tells one extraction of it from another: its id
\* and the systemMetadata of its payload
Kind(w) ==
    IF w.t = "MetadataWorkUnit"
    THEN [w EXCEPT !.id = "", !.metadata.systemMetadata = None]
    ELSE [w EXCEPT !.id = ""]

\* the outs of the get_records calls, one after the other
YieldedInCallOrder ==
    Flatten([k \in 1..Len(extractions) |-> extractions[k].out])

\* C11: a get_records call on a work unit whose payload is an event with an
\* empty aspect list raises and yields no envelope; the raise is that call's
\* alone: the envelopes of the calls before it stay, the calls after it go on
\* yielding, and what a call does to a work unit is the same whatever calls
\* came before it.
C11_EmptySnapshotRaises ==
    /\ \A k \in 1..Len(extractions) :
        EmptySnapshot(extractions[k].before) =>
            /\ extractions[k].raised = "AttributeError"
            /\ extractions[k].out = <<>>
    /\ envelopes = YieldedInCallOrder
    /\ \A k, l \in 1..Len(extractions) :
        Kind(extractions[k].before) = Kind(extractions[l].before) =>
            /\ extractions[k].raised = extractions[l].raised
            /\ Len(extractions[k].out) = Len(extractions[l].out)

\* a valid unit yields, then the empty event raises, then a valid unit yields
C11_Witness ==
    /\ Len(extractions) = 3
    /\ extractions[1].raised = "none" /\ extractions[3].raised = "none"
    /\ EmptySnapshot(extractions[2].before)
    /\ extractions[2].raised = "AttributeError"
    /\ extractions[2].unit # extractions[1].unit
    /\ Len(envelopes) = 2

\* C12: a get_records call on a work unit whose payload fails validate()
\* raises and yields no envelope, for MetadataWorkUnit and UsageStatsWorkUnit
\* alike.
C12_InvalidPayloadRaises ==
    \A k \in 1..Len(extractions) :
        LET e == extractions[k]
        IN  (KnownWorkUnit(e.before) /\ ~PayloadValidates(e.before)) =>
                /\ e.raised # "none"
                /\ e.out = <<>>

\* an invalid wrapper and an invalid usage statistic have both been refused
C12_Witness ==
    /\ \E k \in 1..Len(extractions) :
        /\ extractions[k].before.t = "MetadataWorkUnit"
        /\ IsMetadataChangeProposalWrapper(extractions[k].before.metadata)
        /\ ~PayloadValidates(extractions[k].before)
        /\ extractions[k].raised = "ValueError"
    /\ \E k \in 1..Len(extractions) :
        /\ extractions[k].before.t = "UsageStatsWorkUnit"
        /\ ~PayloadValidates(extractions[k].before)
        /\ extractions[k].raised = "ValueError"

\* C13: a get_records call on a work unit that passes validation (its payload
\* validates and is not an event with an empty aspect list) yields exactly one
\* envelope, whose record is the payload and whose metadata carries the unit's
\* id; the envelopes appear in the order of the calls.
C13_OneEnvelopePerValidUnit ==
    /\ \A k \in 1..Len(extractions) :
        LET e == extractions[k]
        IN  (KnownWorkUnit(e.before) /\ PayloadValidates(e.before) /\ ~EmptySnapshot(e.before)) =>
                /\ e.raised = "none"
                /\ e.out = <<RecordEnvelope(Payload(e.after), [workunit_id |-> e.before.id])>>
    /\ envelopes = YieldedInCallOrder

\* two valid work units, extracted second one first: the envelopes follow the calls
C13_Witness ==
    /\ Len(extractions) = 2
    /\ extractions[1].unit = 2 /\ extractions[2].unit = 1
    /\ Len(envelopes) = 2
    /\ envelopes[1].metadata.workunit_id = "wu-2"
    /\ envelopes[2].metadata.workunit_id = "wu-1"
    /\ IsMetadataChangeEvent(envelopes[1].record)
    /\ envelopes[2].record.t = "MetadataChangeProposalWrapper"

\* the fields of a work unit's payload that call k left different
Written(k) ==
    LET b == Payload(extractions[k].before)
        a == Payload(extractions[k].after)
    IN  IF KnownWorkUnit(extractions[k].before)
        THEN {f \in DOMAIN b : a[f] # b[f]}
        ELSE {}

\* the calls that wrote the systemMetadata of unit i's payload
Stampings(i) ==
    {k \in 1..Len(extractions) :
        extractions[k].unit = i /\ "systemMetadata" \in Written(k)}

\* C14 as stated: over any sequence of get_records calls a payload's
\* systemMetadata is written at most once and no other field is written.
C14_StampedAtMostOnce ==
    /\ \A i \in DOMAIN units : Cardinality(Stampings(i)) <= 1
    /\ \A k \in 1..Len(extractions) : Written(k) \subseteq {"systemMetadata"}

\* C14, amended: every get_records call on a MetadataWorkUnit writes the
\* payload's systemMetadata once, with the time of the call and the run id,
\* and writes nothing else of the work unit; a work unit extracted again is
\* stamped again.  A UsageStatsWorkUnit is left as it was.
C14_StampedOncePerCall ==
    \A k \in 1..Len(extractions) :
        LET e == extractions[k]
        IN  e.after = IF e.before.t = "MetadataWorkUnit"
                      THEN [e.before EXCEPT !.metadata.systemMetadata = SystemMetadata(e.time, run_id)]
                      ELSE e.before

\* one work unit extracted twice, its payload stamped at both times
C14_Witness ==
    \E k, l \in 1..Len(extractions) :
        /\ k < l
        /\ extractions[k].unit = extractions[l].unit
        /\ extractions[k].before.t = "MetadataWorkUnit"
        /\ extractions[k].after.metadata.systemMetadata = SystemMetadata(extractions[k].time, run_id)
        /\ extractions[l].after.metadata.systemMetadata = SystemMetadata(extractions[l].time, run_id)
        /\ extractions[k].time # extractions[l].time

-----------------------------------------------------------------------------
(* Properties of DataProcessInstance emission *)

\* the place of a proposal in the emission order of one entity
Group(p) ==
    IF p.entityType \in {"dataFlow", "dataJob"} THEN 0
    ELSE IF p.aspectName = Str("dataProcessInstanceProperties") THEN 1
    ELSE IF p.aspectName = Str("dataProcessInstanceRelationships") THEN 2
    ELSE IF p.aspectName \in {Str("dataProcessInstanceInput"), Str("dataProcessInstanceOutput")} THEN 3
    ELSE IF p.entityType = "dataset" /\ p.aspectName = Str("status") THEN 4
    ELSE 5

\* the call passes the emitter a callback
WithCallback(call) == call.args # <<>> /\ call.args[1] # None

C16_DispatchByCapability ==
    emission # None =>
        \A k \in 1..Len(emission.sent) :
            WithCallback(emission.sent[k]) <=> emission.emitter.capability = "async"

\* C17: the calls emit_process_start and emit make on the emitter are in the
\* order template proposals, properties, relationships, input and output,
\* iolet status: no proposal of a later group precedes one of an earlier group.
C17_EmissionOrder ==
    (emission # None /\ emission.op \in {"emit_process_start", "emit"}) =>
        \A i, j \in 1..Len(emission.sent) :
            i < j => Group(emission.sent[i].mcp) <= Group(emission.sent[j].mcp)

\* a completed emit_process_start whose calls cover all five groups
C17_Witness ==
    /\ emission # None
    /\ emission.op = "emit_process_start"
    /\ emission.raised = "none"
    /\ {Group(emission.sent[k].mcp) : k \in 1..Len(emission.sent)} = 0..5
    /\ Len(dpi.inlets \o dpi.outlets) = 2

-----------------------------------------------------------------------------
(* Properties of the naming-convention transform *)

\* the values directly inside an object form
Children(x) ==
    IF x.t = "dict" THEN {x.items[k] : k \in DOMAIN x.items}
    ELSE IF x.t = "list" THEN {x.elems[i] : i \in 1..Len(x.elems)}
    ELSE {}

\* x and everything nested in it
RECURSIVE Nodes(_)
Nodes(x) == {x} \cup UNION {Nodes(c) : c \in Children(x)}

IsDict(x) == x.t = "dict"

NoNulls(x) == None \notin Nodes(x)

NoDiscriminator(x) ==
    \A n \in Nodes(x) : IsDict(n) => FieldDiscriminator \notin DOMAIN n.items

NoBytes(x) == \A n \in Nodes(x) : n.t # "bytes"

\* a mapping of one entry whose key has the wire prefix and not the internal one
WireOnlyEntry(n) ==
    /\ IsDict(n)
    /\ Cardinality(DOMAIN n.items) = 1
    /\ \A k \in DOMAIN n.items :
        startswith(k, WirePattern) /\ ~startswith(k, InternalPattern)

\* C18 as stated: for every object form with no null and no fieldDiscriminator
\* mapping, post_json_transform(pre_json_transform(x)) = x, mappings keyed by
\* the wire prefix included.
C18_RoundTrip ==
    (json_pc = "back" /\ NoNulls(json_in) /\ NoDiscriminator(json_in)) =>
        json_back = json_in

\* C18, amended: the round trip is the identity on every object form with no
\* null, no fieldDiscriminator mapping, no bytes leaf and no one-entry mapping
\* whose key starts with the wire prefix without starting with the internal one.
C18_RoundTripOnInternalForms ==
    (json_pc \in {"wire", "back"} /\ NoNulls(json_in) /\ NoDiscriminator(json_in)
        /\ NoBytes(json_in) /\ \A n \in Nodes(json_in) : ~WireOnlyEntry(n)) =>
        /\ json_wire.t # "raise"
        /\ json_pc = "back" => json_back = json_in

\* a nested one-entry mapping keyed by the internal prefix has gone to the wire
\* prefix and come back
C18_Witness ==
    /\ json_pc = "back"
    /\ NoNulls(json_in) /\ NoDiscriminator(json_in) /\ NoBytes(json_in)
    /\ \A n \in Nodes(json_in) : ~WireOnlyEntry(n)
    /\ IsDict(json_in) /\ IsDict(json_wire)
    /\ \E k \in DOMAIN json_in.items :
        /\ startswith(k, InternalPattern)
        /\ IsDict(json_in.items[k])
        /\ \E k2 \in DOMAIN json_in.items[k].items : startswith(k2, InternalPattern)
    /\ json_wire # json_in
    /\ json_back = json_in

\* C19: what pre_json_transform returns has no mapping entry whose value is
\* null, at any depth.
C19_NoNullEntryOnWire ==
    (json_pc \in {"wire", "back"} /\ json_wire.t # "raise") =>
        \A n \in Nodes(json_wire) :
            IsDict(n) => \A k \in DOMAIN n.items : n.items[k] # None

\* C20: a mapping with a fieldDiscriminator entry whose value d names one of its
\* keys is transformed to the one-entry mapping {d: transform(m[d])}; when d
\* names none of its keys the call raises KeyError; and an exception raised
\* inside a nested value leaves the enclosing call too.
C20_DiscriminatedUnion ==
    json_pc \in {"wire", "back"} =>
        /\ (IsDict(json_in) /\ FieldDiscriminator \in DOMAIN json_in.items) =>
            LET d == json_in.items[FieldDiscriminator]
            IN  IF d.t = "jstr" /\ d.s \in DOMAIN json_in.items
                THEN LET v == pre_json_transform(json_in.items[d.s])
                     IN  json_wire = IF v.t = "raise" THEN v ELSE JDict(d.s :> v)
                ELSE d.t \in {"jstr", "bytes", "None"} => json_wire = Raise("KeyError")
        /\ (\E c \in Children(json_in) : c # None /\ pre_json_transform(c).t = "raise"
                /\ ~(IsDict(json_in) /\ FieldDiscriminator \in DOMAIN json_in.items)) =>
            json_wire.t = "raise"

\* a mapping reduced to the entry its discriminator names, the value of that
\* entry transformed
C20_Witness ==
    /\ json_pc \in {"wire", "back"}
    /\ IsDict(json_in)
    /\ Cardinality(DOMAIN json_in.items) = 2
    /\ FieldDiscriminator \in DOMAIN json_in.items
    /\ json_in.items[FieldDiscriminator] = JStr(<<"f">>)
    /\ json_wire = JDict(<<"f">> :> JStr(<<"b">>))
    /\ json_in.items[<<"f">>] = JBytes(<<"b">>)

-----------------------------------------------------------------------------
(* Properties of WorkUnitRecordExtractor: policy and order of the stamping *)

\* the work unit with the other value of treat_errors_as_warnings
OtherPolicy(w) == [w EXCEPT !.treat_errors_as_warnings = ~@]

\* C24: get_records does not read treat_errors_as_warnings: on the work unit
\* that differs from the extracted one in that flag alone, the call made at
\* the same time ends with the same exception or yields the same envelope,
\* and a payload that fails a check raises whatever the flag says.
C24_PolicyNotDecidedHere ==
    \A k \in 1..Len(extractions) :
        LET e == extractions[k]
        IN  e.before.t = "MetadataWorkUnit" =>
                LET twin == get_records(OtherPolicy(e.before), e.time, run_id)
                    same == get_records(e.before, e.time, run_id)
                IN  /\ twin.raised = e.raised
                    /\ twin.out = e.out
                    /\ twin.workunit = OtherPolicy(e.after)
                    /\ same.raised = e.raised
                    /\ (EmptySnapshot(e.before) \/ ~PayloadValidates(e.before)) => e.raised # "none"

\* two work units that differ in the flag alone (and in their ids), both with
\* a payload that fails validate(), both extracted, both calls raising
C24_Witness ==
    \E k, l \in 1..Len(extractions) :
        /\ extractions[k].before.t = "MetadataWorkUnit"
        /\ extractions[l].before.t = "MetadataWorkUnit"
        /\ extractions[k].before.treat_errors_as_warnings
        /\ ~extractions[l].before.treat_errors_as_warnings
        /\ extractions[k].before.metadata = extractions[l].before.metadata
        /\ extractions[k].raised = "ValueError"
        /\ extractions[l].raised = "ValueError"

\* C29: the stamping comes before the two checks: a get_records call on a
\* MetadataWorkUnit that raises has left the payload's systemMetadata equal to
\* the stamp of that call, whatever it was before, for an event, a wrapper
\* and a raw proposal alike.
C29_StampedBeforeChecks ==
    \A k \in 1..Len(extractions) :
        LET e == extractions[k]
        IN  (e.before.t = "MetadataWorkUnit" /\ e.raised # "none") =>
                /\ IsStamped(e.before.metadata)
                /\ e.after.metadata.systemMetadata = SystemMetadata(e.time, run_id)
                /\ e.after.metadata.systemMetadata # e.before.metadata.systemMetadata

\* a raw proposal and an event, both failing; the raw one extracted twice, so
\* that the second raising call replaces the stamp the first one left
C29_Witness ==
    \E k, l, m \in 1..Len(extractions) :
        /\ k < l
        /\ extractions[k].unit = extractions[l].unit
        /\ extractions[k].before.t = "MetadataWorkUnit"
        /\ IsMetadataChangeProposal(extractions[k].before.metadata)
        /\ extractions[k].raised = "ValueError"
        /\ extractions[l].raised = "ValueError"
        /\ extractions[l].before.metadata.systemMetadata = SystemMetadata(extractions[k].time, run_id)
        /\ extractions[l].after.metadata.systemMetadata = SystemMetadata(extractions[l].time, run_id)
        /\ extractions[m].before.t = "MetadataWorkUnit"
        /\ IsMetadataChangeEvent(extractions[m].before.metadata)
        /\ extractions[m].raised = "AttributeError"

-----------------------------------------------------------------------------
(* Properties of DataProcessInstance emission: failures and the template *)

\* the calls the operation of the emission makes when no write is rejected
Unfailed ==
    IF emission.op = "emit_process_start"
    THEN emit_process_start(dpi, emission.emitter, 1000, emission.emit_template, emission.callback, 0).sent
    ELSE IF emission.op = "emit_process_end"
    THEN emit_process_end(dpi, emission.emitter, 2000, emission.callback, 0).sent
    ELSE emit(dpi, emission.emitter, emission.callback, 0).sent

\* C25: when a synchronous transport raises on the k-th emit call of emit,
\* emit_process_start or emit_process_end, the operation ends with that
\* exception, the calls made are the first k of the sequence and no more: the
\* k-th was made once, none after it was made.
C25_FailurePropagatesNoRetry ==
    (emission # None /\ emission.emitter.capability = "sync" /\ emission.fail_at > 0) =>
        /\ emission.raised = "OperationalError"
        /\ Len(emission.sent) = emission.fail_at
        /\ emission.sent = SubSeq(Unfailed, 1, emission.fail_at)

\* emit_process_start through the REST emitter, the second of more than three
\* writes rejected
C25_Witness ==
    /\ emission # None
    /\ emission.op = "emit_process_start"
    /\ emission.emitter.cls = "DatahubRestEmitter"
    /\ emission.fail_at = 2
    /\ emission.raised = "OperationalError"
    /\ Len(emission.sent) = 2
    /\ Len(Unfailed) > 3

\* the calls of the emission that carry a proposal of the template
TemplateCalls == {k \in 1..Len(emission.sent) : Group(emission.sent[k].mcp) = 0}

\* C27: a completed emit_process_start with emit_template true and a template
\* urn dispatches every proposal of the template object once: the template
\* is sent, and no two calls carry the same aspect of the template's urn,
\* whether the template object is cached or built from the urn.
C27_TemplateDispatchedOnce ==
    (/\ emission # None
     /\ emission.op = "emit_process_start"
     /\ emission.emit_template
     /\ dpi.template_urn # None
     /\ emission.raised = "none") =>
        /\ TemplateCalls # {}
        /\ \A k, l \in TemplateCalls :
                (/\ emission.sent[k].mcp.entityUrn = emission.sent[l].mcp.entityUrn
                 /\ emission.sent[k].mcp.aspectName = emission.sent[l].mcp.aspectName) => k = l

-----------------------------------------------------------------------------
(* Properties of PulsarSource.is_checkpointing_enabled *)

\* C26: is_checkpointing_enabled(job_id) is true exactly when job_id is the
\* default ingestion job id, stateful ingestion is configured and its
\* remove_stale_metadata option is on.
C26_EnabledForDefaultJob ==
    \A k \in 1..Len(checks) :
        checks[k].ret <=>
            /\ checks[k].job_id = get_default_ingestion_job_id
            /\ is_stateful_ingestion_configured
            /\ stateful_ingestion.remove_stale_metadata

-----------------------------------------------------------------------------
(* Properties of a Pulsar run: status order and the checkpoint state *)

\* a work unit carrying a status aspect
IsStatus(w) ==
    /\ w.metadata.t = "MetadataChangeProposalWrapper"
    /\ w.metadata.aspectName = Str("status")

\* the places of the status work units for urn u among the yielded ones
StatusPlaces(u) ==
    {i \in 1..Len(emitted) : IsStatus(emitted[i]) /\ emitted[i].metadata.entityUrn = u}

\* the urns the run has observed: those it has yielded a removed=false status for
Observed ==
    {emitted[i].metadata.entityUrn :
        i \in {j \in 1..Len(emitted) : IsStatus(emitted[j]) /\ ~emitted[j].metadata.aspect.removed}}

Last(S) == CHOOSE m \in S : \A n \in S : n <= m

\* C28: in the order the work units are yielded, the last status work unit
\* for the urn of every topic the run has observed carries removed=false, at
\* the end of a completed run and at every point before it: a soft-delete of
\* an urn is never the last word once the run has observed that urn.
C28_ObservedEndsNotRemoved ==
    \A u \in Observed : ~emitted[Last(StatusPlaces(u))].metadata.aspect.removed

\* a completed run that soft-deleted an urn and went on to observe it
C28_Witness ==
    /\ pc = "done"
    /\ \E i, j \in 1..Len(emitted) :
        /\ i < j
        /\ IsSoftDelete(emitted[i])
        /\ IsStatus(emitted[j])
        /\ ~emitted[j].metadata.aspect.removed
        /\ emitted[j].metadata.entityUrn = emitted[i].metadata.entityUrn

\* the work units yielded so far that describe urn u as discovered
Discovered(u) ==
    {i \in 1..Len(emitted) : emitted[i].metadata.entityUrn = u /\ ~IsSoftDelete(emitted[i])}

\* C30: the checkpoint state changes only by gaining the urn of the topic
\* being extracted, only when the generator is resumed after the last work
\* unit of that topic has been yielded, and only with stateful ingestion
\* configured and a current checkpoint at hand; as long as the generator
\* stands inside a topic's work units that topic's urn is not in the state,
\* so a run abandoned there has not recorded it.
C30_RegisteredAfterLastYield ==
    /\ [](pc = "add" => TopicUrn(topic.s) \notin Registered)
    /\ [][Registered' # Registered =>
            /\ pc = "add"
            /\ extracting.yielded = Len(extracting.out)
            /\ \A k \in 1..Len(extracting.out) :
                    \E i \in Discovered(TopicUrn(topic.s)) : emitted[i] = extracting.out[k]
            /\ is_stateful_ingestion_configured
            /\ cur_checkpoint # None
            /\ Registered' = Registered \cup {TopicUrn(topic.s)}]_vars

\* one topic registered after its work units were yielded, the next one left
\* in the middle of its own and not registered
C30_Witness ==
    /\ pc = "add"
    /\ extracting.yielded > 0
    /\ extracting.yielded < Len(extracting.out)
    /\ TopicUrn(topic.s) \notin Registered
    /\ \E u \in Registered : Cardinality(Discovered(u)) >= 4
    /\ is_stateful_ingestion_configured

-----------------------------------------------------------------------------
(* Properties of DataHubGraph.get_latest_timeseries_value *)

\* the server reports not-found for the query
NotFound(r) == r.t = "Response" /\ r.status_code = 404

\* the server answers the query with no values
NoValues(r) ==
    /\ r.t = "Response" /\ r.status_code = 200 /\ r.json.t = "dict"
    /\ \/ r.json.value = Absent
       \/ /\ r.json.value # None
          /\ r.json.value.values = Absent \/ r.json.value.values = JList(<<>>)

\* the server answers the query with one value that carries the text of an aspect
OneValue(r) ==
    /\ r.t = "Response" /\ r.status_code = 200 /\ r.json.t = "dict"
    /\ r.json.value # Absent /\ r.json.value # None
    /\ r.json.value.values # Absent
    /\ Len(r.json.value.values.elems) = 1
    /\ r.json.value.values.elems[1].aspect # Absent
    /\ r.json.value.values.elems[1].aspect.value # Absent
    /\ r.json.value.values.elems[1].aspect.value.t = "json"

\* C23: asked for the latest value of an entity urn, the client returns None
\* without raising when the server has no values for the query and when it
\* reports not-found, and returns the aspect of the single value when the
\* server answers with one.
C23_LoadNoneWhenMissing ==
    (latest_value # None /\ _guess_entity_type(request.entity_urn).raised = "none") =>
        /\ (NotFound(request.response) \/ NoValues(request.response)) =>
                latest_value.raised = "none" /\ latest_value.ret = None
        /\ OneValue(request.response) =>
                /\ latest_value.raised = "none"
                /\ latest_value.ret =
                        from_obj("DatahubIngestionRunSummaryClass",
                                 request.response.json.value.values.elems[1].aspect.value.obj)

-----------------------------------------------------------------------------
(* Properties of the reporting provider *)

\* the jobs a commit carried a state for
CommittedJobs(entry) == {entry.state_to_commit[i].job_name : i \in 1..Len(entry.state_to_commit)}

\* the state a commit carried for a job
CommittedState(entry, job) ==
    (CHOOSE x \in SeqToSet(entry.state_to_commit) : x.job_name = job).state

\* the commits among the first n that carried a state for the job
CommitsOf(job, n) == {k \in 1..n : job \in CommittedJobs(commit_log[k])}

\* what get_last_state answers for a key on a graph holding mcps
Load(mcps, state_key) == get_last_state(mcps, state_key, 1, {}).ret

\* C21: after commit() the committed flag is true; every state was emitted
\* as one proposal on the dataJob urn of its job with the run-summary aspect
\* name; and get_last_state for the key returns, for every job of the key
\* that has been committed, the state of its latest commit, and nothing for a
\* job never committed.
C21_CommitThenLoad ==
    /\ commit_log # <<>> => committed
    /\ \A k \in 1..Len(commit_log) :
        LET e == commit_log[k]
        IN  /\ e.raised = "none"
            /\ Len(e.sent) = Len(e.state_to_commit)
            /\ \A i \in 1..Len(e.sent) :
                /\ e.sent[i].entityType = "dataJob"
                /\ e.sent[i].changeType = "UPSERT"
                /\ e.sent[i].aspectName = Str("datahubIngestionRunSummary")
                /\ e.sent[i].entityUrn =
                        get_data_job_urn(pipeline_name, platform_instance_id, e.state_to_commit[i].job_name)
                /\ e.sent[i].aspect = e.state_to_commit[i].state
    /\ last_state # None =>
        /\ last_state.raised = "none"
        /\ \A job \in SeqToSet(last_state.state_key.job_names) :
            IF CommitsOf(job, last_state.at) = {}
            THEN \A x \in last_state.ret : x.job_name # job
            ELSE {x.state : x \in {y \in last_state.ret : y.job_name = job}} =
                    {CommittedState(commit_log[Last(CommitsOf(job, last_state.at))], job)}

\* the test: both jobs committed at once, one COMPLETED and one SKIPPED, then
\* loaded back with the key of both
C21_Witness ==
    /\ committed
    /\ Len(commit_log) = 1
    /\ Len(commit_log[1].state_to_commit) = 2
    /\ commit_log[1].state_to_commit[1].state.obj.runStatus = "COMPLETED"
    /\ commit_log[1].state_to_commit[2].state.obj.runStatus = "SKIPPED"
    /\ last_state # None
    /\ last_state.at = 1
    /\ last_state.state_key.job_names = job_names
    /\ Cardinality(last_state.ret) = 2
    /\ last_state.ret = SeqToSet(commit_log[1].state_to_commit)

\* C22: a commit of the value committed just before leaves the answer of
\* get_last_state as the first commit left it, for every key; and a commit
\* leaves the answer for the jobs it carries no state for as it was.
C22_CommitIdempotent ==
    \A k \in 1..Len(commit_log) :
        /\ (k > 1 /\ commit_log[k].state_to_commit = commit_log[k - 1].state_to_commit) =>
                \A key \in JobStateKeyInputs :
                    Load(commit_log[k].after, key) = Load(commit_log[k - 1].after, key)
        /\ \A job \in SeqToSet(job_names) \ CommittedJobs(commit_log[k]) :
                Load(commit_log[k].after, JobStateKey(pipeline_name, platform_instance_id, <<job>>))
                    = Load(commit_log[k].before, JobStateKey(pipeline_name, platform_instance_id, <<job>>))

\* job2 committed, then job1 committed twice with the same state: job2's
\* state is still loaded, job1's is the one committed
C22_Witness ==
    /\ Len(commit_log) = 3
    /\ CommittedJobs(commit_log[1]) = {"job2"}
    /\ CommittedJobs(commit_log[2]) = {"job1"}
    /\ commit_log[3].state_to_commit = commit_log[2].state_to_commit
    /\ Load(mcps_emitted, JobStateKey(pipeline_name, platform_instance_id, job_names))
            = SeqToSet(commit_log[1].state_to_commit) \cup SeqToSet(commit_log[2].state_to_commit)
    /\ last_state # None /\ last_state.at = 3

====
